---- MODULE Spec2Model ----
(***************************************************************************)
(* State-machine model of the rgirl memory bus (src/src/mmu.rs), its       *)
(* keypad (src/src/keypad.rs) and the device orchestration                 *)
(* (src/src/device.rs).                                                    *)
(*                                                                         *)
(* Bytes are naturals in 0..255, addresses naturals in 0..65535.  The      *)
(* collaborators whose code is outside the modelled files (cartridge,      *)
(* video unit, timer, serial, sound) are environment: a read routed to one *)
(* of them returns an arbitrary byte, a write routed to one of them        *)
(* changes no bus field.                                                   *)
(***************************************************************************)
EXTENDS Integers, Sequences, FiniteSets, TLC

VARIABLES
    gbmode,                 \* MMU.gbmode
    wram,                   \* MMU.wram, restricted to the cells WramCells
    zram,                   \* MMU.zram, restricted to the cells ZramCells
    hdma,                   \* MMU.hdma: the four latched 0xFF51..0xFF54 bytes
    inte,                   \* MMU.inte
    intf,                   \* MMU.intf
    keypad,                 \* MMU.keypad: [row0, row1, data, interrupt]
    timer_interrupt,        \* MMU.timer.interrupt
    gpu_interrupt,          \* MMU.gpu.interrupt
    serial_interrupt,       \* MMU.serial.interrupt
    hdma_status,            \* MMU.hdma_status
    hdma_src,               \* MMU.hdma_src
    hdma_dst,               \* MMU.hdma_dst
    hdma_len,               \* MMU.hdma_len
    wrambank,               \* MMU.wrambank
    gbspeed,                \* MMU.gbspeed
    speed_switch_req,       \* MMU.speed_switch_req
    undocumented_cgb_regs,  \* MMU.undocumented_cgb_regs
    mirror,                 \* MMU.wram_mirror (named mirror in write_mirror):
                            \* the sequence of its bytes, byte i at mirror[i + 1]
    frame_counter,          \* MMU.frame_counter
    panicked,               \* a panic! or an index out of bounds has unwound
    last,                   \* the operation that produced this state
    pre                     \* the bus fields as they were before that operation

vars == <<gbmode, wram, zram, hdma, inte, intf, keypad, timer_interrupt,
          gpu_interrupt, serial_interrupt, hdma_status, hdma_src, hdma_dst,
          hdma_len, wrambank, gbspeed, speed_switch_req,
          undocumented_cgb_regs, mirror, frame_counter, panicked, last, pre>>

(***************************************************************************)
(* Fixed-width arithmetic                                                  *)
(***************************************************************************)
RECURSIVE BitAnd(_, _)
BitAnd(a, b) ==
    IF a = 0 \/ b = 0 THEN 0
    ELSE (a % 2) * (b % 2) + 2 * BitAnd(a \div 2, b \div 2)

BitOr(a, b) == a + b - BitAnd(a, b)

\* `!x` on a u8
Not8(x) == 255 - x

\* wrapping u16 addition
Add16(a, b) == (a + b) % 65536

Byte == 0..255

(***************************************************************************)
(* Program constants                                                       *)
(***************************************************************************)
WRAM_SIZE == \h8000
ZRAM_SIZE == \h7F
MIRROR_SIZE == \h68

\* GbSpeed as u32: the divider do_cycle uses
SpeedDivider(speed) == IF speed = "Double" THEN 2 ELSE 1

(***************************************************************************)
(* Working memory.  The model keeps the cells of working memory that the   *)
(* modelled addresses reach: for each tracked window offset, the cell of   *)
(* the fixed bank 0 and the cell of each switchable bank 1..7.             *)
(***************************************************************************)
RamOffs == {\h000, \hDFF, \hF80}

WramCells == { b * \h1000 + o : b \in 0..7, o \in RamOffs }

ZramCells == {\h00, \h7E}

\* fill_random(&mut wram, 42): the bytes the generator leaves in the tracked
\* cells (x := x * 1103515245 + 12345 mod 2^32, byte = (x >> 23) & 0xFF,
\* cell i taking the byte of the (i+1)-th step).
FillRandom42 ==
    (\h0000 :> \h95) @@ (\h1000 :> \h67) @@ (\h2000 :> \hF0) @@ (\h3000 :> \h32) @@
    (\h4000 :> \h2C) @@ (\h5000 :> \hDE) @@ (\h6000 :> \h48) @@ (\h7000 :> \h6A) @@
    (\h0DFF :> \h39) @@ (\h1DFF :> \h24) @@ (\h2DFF :> \hA7) @@ (\h3DFF :> \hC2) @@
    (\h4DFF :> \h76) @@ (\h5DFF :> \hC1) @@ (\h6DFF :> \hA4) @@ (\h7DFF :> \h20) @@
    (\h0F80 :> \hC7) @@ (\h1F80 :> \h2B) @@ (\h2F80 :> \h47) @@ (\h3F80 :> \h1B) @@
    (\h4F80 :> \hA7) @@ (\h5F80 :> \hEC) @@ (\h6F80 :> \hE8) @@ (\h7F80 :> \h9C)

(***************************************************************************)
(* Address decoding                                                        *)
(***************************************************************************)
\* BankSelect without the alias of 0 to bank 1
BankSelectNoAlias(value) == BitAnd(value, \h7)

\* 0xFF70 write: `match value & 0x7 { 0 => 1, n => n }`
BankSelect(value) ==
    LET n == BitAnd(value, \h7) IN IF n = 0 THEN 1 ELSE n

\* 0xC000..=0xCFFF | 0xE000..=0xEFFF: `address & 0x0FFF`
LowIndex(address) == BitAnd(address, \h0FFF)

\* 0xD000..=0xDFFF | 0xF000..=0xFDFF: `(wrambank * 0x1000) | address & 0x0FFF`
BankedIndex(bank, address) == BitOr(bank * \h1000, BitAnd(address, \h0FFF))

\* 0xFF80..=0xFFFE: `address & 0x007F`
ZramIndex(address) == BitAnd(address, \h007F)

In(address, lo, hi) == lo <= address /\ address <= hi

\* RbArm with the whole echo region 0xE000..=0xFDFF read from the fixed bank
RbArmEchoFixed(address, mode) ==
    IF In(address, \hE000, \hFDFF) THEN "wram0"
    ELSE IF In(address, \hC000, \hCFFF) THEN "wram0"
    ELSE IF In(address, \hD000, \hDFFF) THEN "wramx"
    ELSE IF address = \hFF70 /\ mode = "Color" THEN "svbk"
    ELSE IF In(address, \hFF80, \hFFFE) THEN "zram"
    ELSE "unmapped"

\* RbArm without the two guarded arms: every register answers in every mode
RbArmUngated(address, mode) ==
    IF address = \hFF4D THEN "key1"
    ELSE IF In(address, \hFF40, \hFF4F) THEN "gpu"
    ELSE IF In(address, \hFF51, \hFF55) THEN "hdma"
    ELSE IF address = \hFF70 THEN "svbk"
    ELSE IF In(address, \hFF72, \hFF73) THEN "undoc"
    ELSE IF address = \hFF75 THEN "undoc75"
    ELSE IF In(address, \hFF76, \hFF77) THEN "pcm"
    ELSE RbArmEchoFixed(address, "Color")

\* The arm of `match address` that MMU::rb takes, first match first.
RbArm(address, mode) ==
    IF In(address, \h0000, \h7FFF) THEN "rom"
    ELSE IF In(address, \h8000, \h9FFF) THEN "gpu"
    ELSE IF In(address, \hA000, \hBFFF) THEN "cartram"
    ELSE IF In(address, \hC000, \hCFFF) \/ In(address, \hE000, \hEFFF) THEN "wram0"
    ELSE IF In(address, \hD000, \hDFFF) \/ In(address, \hF000, \hFDFF) THEN "wramx"
    ELSE IF In(address, \hFE00, \hFE9F) THEN "gpu"
    ELSE IF address = \hFF00 THEN "keypad"
    ELSE IF In(address, \hFF01, \hFF02) THEN "serial"
    ELSE IF In(address, \hFF04, \hFF07) THEN "timer"
    ELSE IF address = \hFF0F THEN "intf"
    ELSE IF In(address, \hFF10, \hFF3F) THEN "sound"
    ELSE IF (address \in {\hFF4D, \hFF4F, \hFF6C, \hFF70} \/ In(address, \hFF51, \hFF55))
            /\ mode # "Color" THEN "gated"
    ELSE IF (In(address, \hFF72, \hFF73) \/ In(address, \hFF75, \hFF77))
            /\ mode = "Classic" THEN "gated"
    ELSE IF address = \hFF4D THEN "key1"
    ELSE IF In(address, \hFF40, \hFF4F) THEN "gpu"
    ELSE IF In(address, \hFF51, \hFF55) THEN "hdma"
    ELSE IF In(address, \hFF68, \hFF6B) THEN "gpu"
    ELSE IF address = \hFF70 THEN "svbk"
    ELSE IF In(address, \hFF72, \hFF73) THEN "undoc"
    ELSE IF address = \hFF75 THEN "undoc75"
    ELSE IF In(address, \hFF76, \hFF77) THEN "pcm"
    ELSE IF In(address, \hFF80, \hFFFE) THEN "zram"
    ELSE IF address = \hFFFF THEN "inte"
    ELSE "unmapped"

\* The arm of `match address` that MMU::wb takes, first match first.
WbArm(address, mode) ==
    IF In(address, \h0000, \h7FFF) THEN "rom"
    ELSE IF In(address, \h8000, \h9FFF) THEN "gpu"
    ELSE IF In(address, \hA000, \hBFFF) THEN "cartram"
    ELSE IF In(address, \hC000, \hCFFF) \/ In(address, \hE000, \hEFFF) THEN "wram0"
    ELSE IF In(address, \hD000, \hDFFF) \/ In(address, \hF000, \hFDFF) THEN "wramx"
    ELSE IF In(address, \hFE00, \hFE9F) THEN "gpu"
    ELSE IF address = \hFF00 THEN "keypad"
    ELSE IF In(address, \hFF01, \hFF02) THEN "serial"
    ELSE IF In(address, \hFF04, \hFF07) THEN "timer"
    ELSE IF In(address, \hFF10, \hFF3F) THEN "sound"
    ELSE IF address = \hFF46 THEN "oamdma"
    ELSE IF (address \in {\hFF4D, \hFF4F, \hFF6C, \hFF70} \/ In(address, \hFF51, \hFF55)
             \/ In(address, \hFF76, \hFF77))
            /\ mode # "Color" THEN "gated"
    ELSE IF (In(address, \hFF72, \hFF73) \/ In(address, \hFF75, \hFF77))
            /\ mode = "Classic" THEN "gated"
    ELSE IF address = \hFF4D THEN "key1"
    ELSE IF In(address, \hFF40, \hFF4F) THEN "gpu"
    ELSE IF In(address, \hFF51, \hFF55) THEN "hdma"
    ELSE IF In(address, \hFF68, \hFF6B) THEN "gpu"
    ELSE IF address = \hFF0F THEN "intf"
    ELSE IF address = \hFF70 THEN "svbk"
    ELSE IF In(address, \hFF72, \hFF73) THEN "undoc"
    ELSE IF address = \hFF75 THEN "undoc75"
    ELSE IF In(address, \hFF80, \hFFFE) THEN "zram"
    ELSE IF address = \hFFFF THEN "inte"
    ELSE "unmapped"

\* The arms that hand the access to a collaborator outside the bus.
\* (MMU.sound is None after construction: the sound arm answers 0xFF itself.)
CollaboratorArms == {"rom", "gpu", "cartram", "serial", "timer"}

(***************************************************************************)
(* Keypad (src/src/keypad.rs)                                              *)
(***************************************************************************)
Keys == {"Right", "Left", "Up", "Down", "A", "B", "Select", "Start"}

\* the row a key lives in (0: row0, directions; 1: row1, buttons)
KeyRow(key) == IF key \in {"Right", "Left", "Up", "Down"} THEN 0 ELSE 1

\* `1 << n` of the key's bit within its row
KeyBit(key) ==
    IF key \in {"Right", "A"} THEN 1
    ELSE IF key \in {"Left", "B"} THEN 2
    ELSE IF key \in {"Up", "Select"} THEN 4
    ELSE 8

KeypadNew == [row0 |-> \h0F, row1 |-> \h0F, data |-> \hFF, interrupt |-> 0]

\* the nibble update() computes from the selector bits of data and the rows
KeypadNewValues(k) ==
    LET v0 == IF BitAnd(k.data, \h10) = 0 THEN BitAnd(\hF, k.row0) ELSE \hF
    IN  IF BitAnd(k.data, \h20) = 0 THEN BitAnd(v0, k.row1) ELSE v0

\* KeypadUpdate raising the request whenever a selected key is down (level,
\* not edge)
KeypadUpdateLevel(k) ==
    LET new_values == KeypadNewValues(k)
    IN  [k EXCEPT
           !.interrupt = IF new_values # \hF THEN BitOr(@, \h10) ELSE @,
           !.data = BitOr(BitAnd(k.data, \hF0), new_values)]

KeypadUpdate(k) ==
    LET old_values == BitAnd(k.data, \hF)
        new_values == KeypadNewValues(k)
    IN  [k EXCEPT
           !.interrupt = IF old_values = \hF /\ new_values # \hF
                         THEN BitOr(@, \h10) ELSE @,
           !.data = BitOr(BitAnd(k.data, \hF0), new_values)]

\* KeypadWb storing every bit of the written byte but the low nibble
KeypadWbAllHigh(k, value) ==
    KeypadUpdate([k EXCEPT !.data = BitOr(BitAnd(@, \h0F), BitAnd(value, \hF0))])

KeypadWb(k, value) ==
    KeypadUpdate([k EXCEPT !.data = BitOr(BitAnd(@, \hCF), BitAnd(value, \h30))])

\* KeypadSetMask taking the directions from the high nibble and the buttons
\* from the low one
KeypadSetMaskSwapped(k, mask) ==
    LET dir_mask == BitAnd(mask \div 16, \h0F)
        btn_mask == BitAnd(mask, \h0F)
    IN  KeypadUpdate([k EXCEPT
                        !.row0 = BitAnd(\h0F, Not8(BitAnd(dir_mask, \h0F))),
                        !.row1 = BitAnd(\h0F, Not8(BitAnd(btn_mask, \h0F)))])

KeypadSetMask(k, mask) ==
    LET dir_mask == BitAnd(mask, \h0F)
        btn_mask == BitAnd(mask \div 16, \h0F)
    IN  KeypadUpdate([k EXCEPT
                        !.row0 = BitAnd(\h0F, Not8(BitAnd(dir_mask, \h0F))),
                        !.row1 = BitAnd(\h0F, Not8(BitAnd(btn_mask, \h0F)))])

KeypadKeydown(k, key) ==
    KeypadUpdate(IF KeyRow(key) = 0
                 THEN [k EXCEPT !.row0 = BitAnd(@, Not8(KeyBit(key)))]
                 ELSE [k EXCEPT !.row1 = BitAnd(@, Not8(KeyBit(key)))])

KeypadKeyup(k, key) ==
    KeypadUpdate(IF KeyRow(key) = 0
                 THEN [k EXCEPT !.row0 = BitOr(@, KeyBit(key))]
                 ELSE [k EXCEPT !.row1 = BitOr(@, KeyBit(key))])

(***************************************************************************)
(* VRAM DMA engine.  The engine works on the record Dma of its fields;     *)
(* rows collects, for the operation in progress, the <<source,             *)
(* destination>> start of every 16-byte row it copied.                     *)
(***************************************************************************)
Dma == [hdma |-> hdma, status |-> hdma_status, src |-> hdma_src,
        dst |-> hdma_dst, len |-> hdma_len, panicked |-> panicked,
        rows |-> <<>>]

HdmaRead(d, a) ==
    IF In(a, \hFF51, \hFF54) THEN d.hdma[a - \hFF51]
    ELSE BitOr(d.len, IF d.status = "NoDMA" THEN \h80 ELSE 0)

\* LegalStart without the upper limit of the second range
LegalStartNoLimit(src) == src <= \h7FF0 \/ src >= \hA000

\* the source check of the 0xFF55 arm
LegalStart(src) == src <= \h7FF0 \/ (src >= \hA000 /\ src <= \hDFF0)

\* HdmaControl without the early return of the active-blanking branch: a
\* write during a blanking transfer goes on to program a new transfer
HdmaControlNoReturn(d, v) ==
    LET src == BitOr(d.hdma[0] * 256, d.hdma[1])
        dst == BitOr(BitOr(d.hdma[2] * 256, d.hdma[3]), \h8000)
    IN  IF ~LegalStart(src)
        THEN [d EXCEPT !.panicked = TRUE]
        ELSE [d EXCEPT !.src = src,
                       !.dst = dst,
                       !.len = BitAnd(v, \h7F),
                       !.status = IF BitAnd(v, \h80) = \h80
                                  THEN "HDMA" ELSE "GDMA"]

\* HdmaControl reprogramming the engine when a blanking start arrives during
\* a blanking transfer
HdmaControlRestart(d, v) ==
    IF d.status = "HDMA" /\ BitAnd(v, \h80) = 0
    THEN [d EXCEPT !.status = "NoDMA"]
    ELSE HdmaControlNoReturn(d, v)

\* the 0xFF55 arm of hdma_write
HdmaControl(d, v) ==
    IF d.status = "HDMA"
    THEN IF BitAnd(v, \h80) = 0 THEN [d EXCEPT !.status = "NoDMA"] ELSE d
    ELSE LET src == BitOr(d.hdma[0] * 256, d.hdma[1])
             dst == BitOr(BitOr(d.hdma[2] * 256, d.hdma[3]), \h8000)
         IN  IF ~LegalStart(src)
             THEN [d EXCEPT !.panicked = TRUE]
             ELSE [d EXCEPT !.src = src,
                            !.dst = dst,
                            !.len = BitAnd(v, \h7F),
                            !.status = IF BitAnd(v, \h80) = \h80
                                       THEN "HDMA" ELSE "GDMA"]

HdmaWrite(d, a, v) ==
    IF a = \hFF51 THEN [d EXCEPT !.hdma[0] = v]
    ELSE IF a = \hFF52 THEN [d EXCEPT !.hdma[1] = BitAnd(v, \hF0)]
    ELSE IF a = \hFF53 THEN [d EXCEPT !.hdma[2] = BitAnd(v, \h1F)]
    ELSE IF a = \hFF54 THEN [d EXCEPT !.hdma[3] = BitAnd(v, \hF0)]
    ELSE IF a = \hFF55 THEN HdmaControl(d, v)
    ELSE [d EXCEPT !.panicked = TRUE]

PerformVramdmaRow(d) ==
    [d EXCEPT !.rows = Append(@, <<d.src, d.dst>>),
              !.src = Add16(@, \h10),
              !.dst = Add16(@, \h10),
              !.len = IF @ = 0 THEN \h7F ELSE @ - 1]

\* `for _i in 0..len { self.perform_vramdma_row(); }`: n rows one after the
\* other.  The run is split in two halves, and the state between them is
\* bound through a singleton set so that it is evaluated once.
RECURSIVE RowsTimes(_, _)
RowsTimes(d, n) ==
    IF n = 0 THEN d
    ELSE IF n = 1 THEN PerformVramdmaRow(d)
    ELSE CHOOSE r \in { RowsTimes(h, n - (n \div 2)) :
                           h \in {RowsTimes(d, n \div 2)} } : TRUE

\* PerformHdma without the may_hdma() check
PerformHdmaAlways(d, may_hdma) ==
    LET r == PerformVramdmaRow(d)
    IN  [d |-> IF r.len = \h7F THEN [r EXCEPT !.status = "NoDMA"] ELSE r,
         ticks |-> 8]

\* PerformHdma ending the transfer when the remaining length reaches 0
PerformHdmaEarly(d, may_hdma) ==
    IF may_hdma = FALSE THEN [d |-> d, ticks |-> 0]
    ELSE LET r == PerformVramdmaRow(d)
         IN  [d |-> IF r.len = 0 THEN [r EXCEPT !.status = "NoDMA"] ELSE r,
              ticks |-> 8]

\* each Perform* yields the engine's fields and the ticks it returns
PerformHdma(d, may_hdma) ==
    IF may_hdma = FALSE THEN [d |-> d, ticks |-> 0]
    ELSE LET r == PerformVramdmaRow(d)
         IN  [d |-> IF r.len = \h7F THEN [r EXCEPT !.status = "NoDMA"] ELSE r,
              ticks |-> 8]

\* PerformGdma copying hdma_len rows instead of hdma_len + 1
PerformGdmaShort(d) ==
    LET len == d.len
    IN  [d |-> [RowsTimes(d, len) EXCEPT !.status = "NoDMA"], ticks |-> len * 8]

PerformGdma(d) ==
    LET len == d.len + 1
    IN  [d |-> [RowsTimes(d, len) EXCEPT !.status = "NoDMA"], ticks |-> len * 8]

PerformVramdma(d, may_hdma) ==
    IF d.status = "NoDMA" THEN [d |-> d, ticks |-> 0]
    ELSE IF d.status = "GDMA" THEN PerformGdma(d)
    ELSE PerformHdma(d, may_hdma)

(***************************************************************************)
(* The bus fields, and the record of the operation that acted last         *)
(***************************************************************************)
Snapshot ==
    [gbmode |-> gbmode, wram |-> wram, zram |-> zram, hdma |-> hdma,
     inte |-> inte, intf |-> intf, keypad |-> keypad,
     timer_interrupt |-> timer_interrupt, gpu_interrupt |-> gpu_interrupt,
     serial_interrupt |-> serial_interrupt, hdma_status |-> hdma_status,
     hdma_src |-> hdma_src, hdma_dst |-> hdma_dst, hdma_len |-> hdma_len,
     wrambank |-> wrambank, gbspeed |-> gbspeed,
     speed_switch_req |-> speed_switch_req,
     undocumented_cgb_regs |-> undocumented_cgb_regs,
     mirror |-> mirror, frame_counter |-> frame_counter]

\* op: the entry point; addr, value, key: its arguments (for do_cycle, addr
\* is the tick count it hands to the timer); ret: what it returned; rows:
\* the DMA rows it copied; may: the video unit's answer to the question the
\* operation asked it (may_hdma(), take_vblank()); prev:
\* the entry point that acted before this one; run: the blanking-row
\* transfer started last, by the control byte L, and the rows it has copied.
NoRun == [L |-> 0, rows |-> 0]

RunAfter(op, addr, value, rows) ==
    IF op = "env_new" THEN NoRun
    ELSE IF op = "wb" /\ WbArm(addr, gbmode) = "hdma" /\ hdma_status # "HDMA"
            /\ HdmaWrite(Dma, addr, value).status = "HDMA"
    THEN [L |-> value, rows |-> 0]
    ELSE IF op \in {"do_cycle", "step_frame", "step_frame_return"}
            /\ hdma_status = "HDMA"
    THEN [last.run EXCEPT !.rows = @ + Len(rows)]
    ELSE last.run

Op(op, addr, value, key, ret, rows, may) ==
    [op |-> op, addr |-> addr, value |-> value, key |-> key, ret |-> ret,
     rows |-> rows, may |-> may, prev |-> last.op,
     run |-> RunAfter(op, addr, value, rows)]

Modes == {"Classic", "Color", "ColorAsClassic"}

\* MMU::new (Classic) and MMU::new_cgb (determine_mode: Color when bit 7 of
\* the cartridge byte 0x0143 is set, ColorAsClassic otherwise); set_initial
\* writes timer, sound and video registers only.
\* The u32 frame counter, kept as its two 16-bit halves: hi * 2^16 + lo.
FrameCount(hi, lo) == [hi |-> hi, lo |-> lo]

FrameZero == FrameCount(0, 0)

InitIn(modes, counters) ==
    /\ gbmode \in modes
    /\ wram = FillRandom42
    /\ zram = [c \in ZramCells |-> 0]
    /\ hdma = [i \in 0..3 |-> 0]
    /\ inte = 0
    /\ intf = 0
    /\ keypad = KeypadNew
    /\ timer_interrupt = 0
    /\ gpu_interrupt = 0
    /\ serial_interrupt = 0
    /\ hdma_status = "NoDMA"
    /\ hdma_src = 0
    /\ hdma_dst = 0
    /\ hdma_len = \hFF
    /\ wrambank = 1
    /\ gbspeed = "Single"
    /\ speed_switch_req = FALSE
    /\ undocumented_cgb_regs = [i \in 0..2 |-> 0]
    /\ mirror = [i \in 1..MIRROR_SIZE |-> 0]
    /\ frame_counter \in counters
    /\ panicked = FALSE
    /\ last = [op |-> "new", addr |-> 0, value |-> 0, key |-> "", ret |-> 0,
               rows |-> <<>>, may |-> FALSE, prev |-> "", run |-> NoRun]
    /\ pre = Snapshot

Init == InitIn(Modes, {FrameZero})

(***************************************************************************)
(* MMU::rb                                                                 *)
(***************************************************************************)
\* RbValue answering 0x00 where no arm matches
RbValueOpenZero(address) ==
    LET arm == RbArm(address, gbmode) IN
    IF arm = "wram0" THEN wram[LowIndex(address)]
    ELSE IF arm = "wramx" THEN wram[BankedIndex(wrambank, address)]
    ELSE IF arm = "keypad" THEN keypad.data
    ELSE IF arm = "intf" THEN BitOr(intf, \hE0)
    ELSE IF arm = "key1"
         THEN BitOr(BitOr(\h7E, IF gbspeed = "Double" THEN \h80 ELSE 0),
                    IF speed_switch_req THEN 1 ELSE 0)
    ELSE IF arm = "hdma" THEN HdmaRead(Dma, address)
    ELSE IF arm = "svbk" THEN wrambank
    ELSE IF arm = "undoc" THEN undocumented_cgb_regs[address - \hFF72]
    ELSE IF arm = "undoc75" THEN BitOr(undocumented_cgb_regs[2], \h8F)
    ELSE IF arm = "zram" THEN zram[ZramIndex(address)]
    ELSE IF arm = "inte" THEN inte
    ELSE IF arm \in {"sound", "gated"} THEN \hFF
    ELSE \h00

\* what rb returns from the arms the bus answers itself
RbValue(address) ==
    LET arm == RbArm(address, gbmode) IN
    IF arm = "wram0" THEN wram[LowIndex(address)]
    ELSE IF arm = "wramx" THEN wram[BankedIndex(wrambank, address)]
    ELSE IF arm = "keypad" THEN keypad.data
    ELSE IF arm = "intf" THEN BitOr(intf, \hE0)
    ELSE IF arm = "sound" THEN \hFF
    ELSE IF arm = "gated" THEN \hFF
    ELSE IF arm = "key1"
         THEN BitOr(BitOr(\h7E, IF gbspeed = "Double" THEN \h80 ELSE 0),
                    IF speed_switch_req THEN 1 ELSE 0)
    ELSE IF arm = "hdma" THEN HdmaRead(Dma, address)
    ELSE IF arm = "svbk" THEN wrambank
    ELSE IF arm = "undoc" THEN undocumented_cgb_regs[address - \hFF72]
    ELSE IF arm = "undoc75" THEN BitOr(undocumented_cgb_regs[2], \h8F)
    ELSE IF arm = "pcm" THEN \h00
    ELSE IF arm = "zram" THEN zram[ZramIndex(address)]
    ELSE IF arm = "inte" THEN inte
    ELSE \hFF

\* the bytes a collaborator may answer with
CollaboratorBytes == {\h00, \hFF}

Rb(address) ==
    /\ ~panicked
    /\ \E r \in IF RbArm(address, gbmode) \in CollaboratorArms
                THEN CollaboratorBytes ELSE {RbValue(address)} :
          last' = Op("rb", address, 0, "", r, <<>>, FALSE)
    /\ pre' = Snapshot
    /\ UNCHANGED <<gbmode, wram, zram, hdma, inte, intf, keypad,
                   timer_interrupt, gpu_interrupt, serial_interrupt,
                   hdma_status, hdma_src, hdma_dst, hdma_len, wrambank,
                   gbspeed, speed_switch_req, undocumented_cgb_regs, mirror,
                   frame_counter, panicked>>

(***************************************************************************)
(* MMU::oamdma: iteration i reads the bus at base + i and writes what it   *)
(* read to the bus at 0xFE00 + i.  The result lists, in order, the pair    *)
(* <<read address, write address>> of every iteration.                     *)
(***************************************************************************)
\* OamDma copying one byte less
OamDmaShort(value) ==
    [i \in 1..(\hA0 - 1) |-> <<Add16(value * 256, i - 1), Add16(\hFE00, i - 1)>>]

OamDma(value) ==
    [i \in 1..\hA0 |-> <<Add16(value * 256, i - 1), Add16(\hFE00, i - 1)>>]

(***************************************************************************)
(* MMU::wb.  The oamdma arm (0xFF46) reads 160 bytes through rb and writes *)
(* them to the video unit's object memory: it changes no bus field.        *)
(***************************************************************************)
Wb(address, value) ==
    LET arm == WbArm(address, gbmode)
        d   == IF arm = "hdma" THEN HdmaWrite(Dma, address, value) ELSE Dma
    IN
    /\ ~panicked
    /\ wram' = IF arm = "wram0"
               THEN [wram EXCEPT ![LowIndex(address)] = value]
               ELSE IF arm = "wramx"
               THEN [wram EXCEPT ![BankedIndex(wrambank, address)] = value]
               ELSE wram
    /\ zram' = IF arm = "zram"
               THEN [zram EXCEPT ![ZramIndex(address)] = value] ELSE zram
    /\ keypad' = IF arm = "keypad" THEN KeypadWb(keypad, value) ELSE keypad
    /\ serial_interrupt' \in IF arm = "serial"
                             THEN {serial_interrupt, BitOr(serial_interrupt, \h08)}
                             ELSE {serial_interrupt}
    /\ speed_switch_req' = IF arm = "key1" /\ BitAnd(value, \h1) = \h1
                           THEN TRUE ELSE speed_switch_req
    /\ hdma' = d.hdma
    /\ hdma_status' = d.status
    /\ hdma_src' = d.src
    /\ hdma_dst' = d.dst
    /\ hdma_len' = d.len
    /\ panicked' = d.panicked
    /\ intf' = IF arm = "intf" THEN value ELSE intf
    /\ wrambank' = IF arm = "svbk" THEN BankSelect(value) ELSE wrambank
    /\ undocumented_cgb_regs' =
          IF arm = "undoc"
          THEN [undocumented_cgb_regs EXCEPT ![address - \hFF72] = value]
          ELSE IF arm = "undoc75"
          THEN [undocumented_cgb_regs EXCEPT ![2] = value]
          ELSE undocumented_cgb_regs
    /\ inte' = IF arm = "inte" THEN value ELSE inte
    /\ last' = Op("wb", address, value, "", 0,
                  IF arm = "oamdma" THEN OamDma(value) ELSE d.rows, FALSE)
    /\ pre' = Snapshot
    /\ UNCHANGED <<gbmode, timer_interrupt, gpu_interrupt, gbspeed, mirror,
                   frame_counter>>

\* SwitchSpeed toggling whether or not a switch was requested
SwitchSpeedAlways ==
    /\ ~panicked
    /\ gbspeed' = IF gbspeed = "Double" THEN "Single" ELSE "Double"
    /\ speed_switch_req' = FALSE
    /\ last' = Op("switch_speed", 0, 0, "", 0, <<>>, FALSE)
    /\ pre' = Snapshot
    /\ UNCHANGED <<gbmode, wram, zram, hdma, inte, intf, keypad,
                   timer_interrupt, gpu_interrupt, serial_interrupt,
                   hdma_status, hdma_src, hdma_dst, hdma_len, wrambank,
                   undocumented_cgb_regs, mirror, frame_counter, panicked>>

(***************************************************************************)
(* MMU::rw and MMU::ww.  Both compute `address + 1` in u16: at 0xFFFF the  *)
(* sum overflows, which panics in a build with overflow checks and wraps   *)
(* to 0x0000 in a build without them; checks is the build's choice.        *)
(* BusWb is wb as a function of the bus fields b, for the two writes of    *)
(* ww; raise tells whether the serial port raises its request.             *)
(***************************************************************************)
Bus == Snapshot @@ [panicked |-> panicked]

BusWb(b, address, value, raise) ==
    LET arm == WbArm(address, b.gbmode)
        d0  == [hdma |-> b.hdma, status |-> b.hdma_status, src |-> b.hdma_src,
                dst |-> b.hdma_dst, len |-> b.hdma_len,
                panicked |-> b.panicked, rows |-> <<>>]
        d   == IF arm = "hdma" THEN HdmaWrite(d0, address, value) ELSE d0
    IN  IF b.panicked THEN b
        ELSE [b EXCEPT
                !.wram = IF arm = "wram0"
                         THEN [@ EXCEPT ![LowIndex(address)] = value]
                         ELSE IF arm = "wramx"
                         THEN [@ EXCEPT ![BankedIndex(b.wrambank, address)] = value]
                         ELSE @,
                !.zram = IF arm = "zram"
                         THEN [@ EXCEPT ![ZramIndex(address)] = value] ELSE @,
                !.keypad = IF arm = "keypad" THEN KeypadWb(@, value) ELSE @,
                !.serial_interrupt = IF arm = "serial" /\ raise
                                     THEN BitOr(@, \h08) ELSE @,
                !.speed_switch_req = IF arm = "key1" /\ BitAnd(value, \h1) = \h1
                                     THEN TRUE ELSE @,
                !.hdma = d.hdma,
                !.hdma_status = d.status,
                !.hdma_src = d.src,
                !.hdma_dst = d.dst,
                !.hdma_len = d.len,
                !.panicked = d.panicked,
                !.intf = IF arm = "intf" THEN value ELSE @,
                !.wrambank = IF arm = "svbk" THEN BankSelect(value) ELSE @,
                !.undocumented_cgb_regs =
                    IF arm = "undoc" THEN [@ EXCEPT ![address - \hFF72] = value]
                    ELSE IF arm = "undoc75" THEN [@ EXCEPT ![2] = value]
                    ELSE @,
                !.inte = IF arm = "inte" THEN value ELSE @]

\* whether the serial port may raise its request on a write to the address
SerialRaises(address) ==
    IF WbArm(address, gbmode) = "serial" THEN BOOLEAN ELSE {FALSE}

\* the bytes one rb of the address may return
RbResults(address) ==
    IF RbArm(address, gbmode) \in CollaboratorArms
    THEN CollaboratorBytes ELSE {RbValue(address)}

\* rw; last.rows lists the <<address, byte>> of the reads it made
Rw(address, checks) ==
    LET overflow == address = \hFFFF /\ checks
        next     == (address + 1) % 65536
    IN
    /\ ~panicked
    /\ panicked' = overflow
    /\ \E r1 \in RbResults(address), r2 \in RbResults(next) :
          last' = IF overflow
                  THEN Op("rw", address, 0, "", 0, << <<address, r1>> >>, FALSE)
                  ELSE Op("rw", address, 0, "", BitOr(r1, r2 * 256),
                          << <<address, r1>>, <<next, r2>> >>, FALSE)
    /\ pre' = Snapshot
    /\ UNCHANGED <<gbmode, wram, zram, hdma, inte, intf, keypad,
                   timer_interrupt, gpu_interrupt, serial_interrupt,
                   hdma_status, hdma_src, hdma_dst, hdma_len, wrambank,
                   gbspeed, speed_switch_req, undocumented_cgb_regs, mirror,
                   frame_counter>>

\* ww; last.rows lists the <<address, byte>> of the writes it made
Ww(address, value, checks) ==
    LET lo   == BitAnd(value, \hFF)
        hi   == value \div 256
        next == (address + 1) % 65536
    IN
    /\ ~panicked
    /\ \E raise1 \in SerialRaises(address), raise2 \in SerialRaises(next) :
          LET b1 == BusWb(Bus, address, lo, raise1)
              second == ~b1.panicked /\ ~(address = \hFFFF /\ checks)
              b2 == IF b1.panicked THEN b1
                    ELSE IF address = \hFFFF /\ checks
                    THEN [b1 EXCEPT !.panicked = TRUE]
                    ELSE BusWb(b1, next, hi, raise2)
          IN  /\ wram' = b2.wram
              /\ zram' = b2.zram
              /\ keypad' = b2.keypad
              /\ serial_interrupt' = b2.serial_interrupt
              /\ speed_switch_req' = b2.speed_switch_req
              /\ hdma' = b2.hdma
              /\ hdma_status' = b2.hdma_status
              /\ hdma_src' = b2.hdma_src
              /\ hdma_dst' = b2.hdma_dst
              /\ hdma_len' = b2.hdma_len
              /\ panicked' = b2.panicked
              /\ intf' = b2.intf
              /\ wrambank' = b2.wrambank
              /\ undocumented_cgb_regs' = b2.undocumented_cgb_regs
              /\ inte' = b2.inte
              /\ last' = Op("ww", address, value, "", 0,
                            IF second
                            THEN << <<address, lo>>, <<next, hi>> >>
                            ELSE << <<address, lo>> >>, FALSE)
    /\ pre' = Snapshot
    /\ UNCHANGED <<gbmode, timer_interrupt, gpu_interrupt, gbspeed, mirror,
                   frame_counter>>

(***************************************************************************)
(* MMU::switch_speed                                                       *)
(***************************************************************************)
SwitchSpeed ==
    /\ ~panicked
    /\ gbspeed' = IF speed_switch_req
                  THEN (IF gbspeed = "Double" THEN "Single" ELSE "Double")
                  ELSE gbspeed
    /\ speed_switch_req' = FALSE
    /\ last' = Op("switch_speed", 0, 0, "", 0, <<>>, FALSE)
    /\ pre' = Snapshot
    /\ UNCHANGED <<gbmode, wram, zram, hdma, inte, intf, keypad,
                   timer_interrupt, gpu_interrupt, serial_interrupt,
                   hdma_status, hdma_src, hdma_dst, hdma_len, wrambank,
                   undocumented_cgb_regs, mirror, frame_counter, panicked>>

\* DoCycle clearing the keypad request without folding it into the pending
\* register
DoCycleDropKeypad(ticks, may_hdma, tirq, girq) ==
    LET cpudivider == SpeedDivider(gbspeed)
        r          == PerformVramdma(Dma, may_hdma)
        vramticks  == r.ticks
        gputicks   == (ticks \div cpudivider) + vramticks
        cputicks   == ticks + vramticks * cpudivider
        intf1      == BitOr(intf, BitOr(timer_interrupt, tirq))
        intf2      == intf1
        intf3      == BitOr(intf2, BitOr(gpu_interrupt, girq))
        intf4      == BitOr(intf3, serial_interrupt)
    IN
    /\ ~panicked
    /\ hdma_status' = r.d.status
    /\ hdma_src' = r.d.src
    /\ hdma_dst' = r.d.dst
    /\ hdma_len' = r.d.len
    /\ intf' = intf4
    /\ timer_interrupt' = 0
    /\ keypad' = [keypad EXCEPT !.interrupt = 0]
    /\ gpu_interrupt' = 0
    /\ serial_interrupt' = 0
    /\ last' = Op("do_cycle", cputicks, ticks, "", gputicks, r.d.rows,
                  hdma_status = "HDMA" /\ may_hdma)
    /\ pre' = Snapshot
    /\ UNCHANGED <<gbmode, wram, zram, hdma, inte, wrambank, gbspeed,
                   speed_switch_req, undocumented_cgb_regs, mirror,
                   frame_counter, panicked>>

\* DoCycle handing the timer the DMA ticks without the speed divider
DoCycleTimerUnscaled(ticks, may_hdma, tirq, girq) ==
    LET cpudivider == SpeedDivider(gbspeed)
        r          == PerformVramdma(Dma, may_hdma)
        vramticks  == r.ticks
        gputicks   == (ticks \div cpudivider) + vramticks
        cputicks   == ticks + vramticks
        intf1      == BitOr(intf, BitOr(timer_interrupt, tirq))
        intf2      == BitOr(intf1, keypad.interrupt)
        intf3      == BitOr(intf2, BitOr(gpu_interrupt, girq))
        intf4      == BitOr(intf3, serial_interrupt)
    IN
    /\ ~panicked
    /\ hdma_status' = r.d.status
    /\ hdma_src' = r.d.src
    /\ hdma_dst' = r.d.dst
    /\ hdma_len' = r.d.len
    /\ intf' = intf4
    /\ timer_interrupt' = 0
    /\ keypad' = [keypad EXCEPT !.interrupt = 0]
    /\ gpu_interrupt' = 0
    /\ serial_interrupt' = 0
    /\ last' = Op("do_cycle", cputicks, ticks, "", gputicks, r.d.rows,
                  hdma_status = "HDMA" /\ may_hdma)
    /\ pre' = Snapshot
    /\ UNCHANGED <<gbmode, wram, zram, hdma, inte, wrambank, gbspeed,
                   speed_switch_req, undocumented_cgb_regs, mirror,
                   frame_counter, panicked>>

(***************************************************************************)
(* MMU::do_cycle.  tirq and girq are the request bits the timer and the    *)
(* video unit raise while they advance; may_hdma is the video unit's       *)
(* answer to may_hdma(), asked only by a blanking-row transfer.            *)
(***************************************************************************)
DoCycle(ticks, may_hdma, tirq, girq) ==
    LET cpudivider == SpeedDivider(gbspeed)
        r          == PerformVramdma(Dma, may_hdma)
        vramticks  == r.ticks
        gputicks   == (ticks \div cpudivider) + vramticks
        cputicks   == ticks + vramticks * cpudivider
        intf1      == BitOr(intf, BitOr(timer_interrupt, tirq))
        intf2      == BitOr(intf1, keypad.interrupt)
        intf3      == BitOr(intf2, BitOr(gpu_interrupt, girq))
        intf4      == BitOr(intf3, serial_interrupt)
    IN
    /\ ~panicked
    /\ hdma_status' = r.d.status
    /\ hdma_src' = r.d.src
    /\ hdma_dst' = r.d.dst
    /\ hdma_len' = r.d.len
    /\ intf' = intf4
    /\ timer_interrupt' = 0
    /\ keypad' = [keypad EXCEPT !.interrupt = 0]
    /\ gpu_interrupt' = 0
    /\ serial_interrupt' = 0
    /\ last' = Op("do_cycle", cputicks, ticks, "", gputicks, r.d.rows,
                  hdma_status = "HDMA" /\ may_hdma)
    /\ pre' = Snapshot
    /\ UNCHANGED <<gbmode, wram, zram, hdma, inte, wrambank, gbspeed,
                   speed_switch_req, undocumented_cgb_regs, mirror,
                   frame_counter, panicked>>

(***************************************************************************)
(* Device::keydown, Device::keyup, Device::set_joypad_mask                 *)
(***************************************************************************)
KeypadStep(k, op, value, key) ==
    /\ ~panicked
    /\ keypad' = k
    /\ last' = Op(op, 0, value, key, 0, <<>>, FALSE)
    /\ pre' = Snapshot
    /\ UNCHANGED <<gbmode, wram, zram, hdma, inte, intf, timer_interrupt,
                   gpu_interrupt, serial_interrupt, hdma_status, hdma_src,
                   hdma_dst, hdma_len, wrambank, gbspeed, speed_switch_req,
                   undocumented_cgb_regs, mirror, frame_counter, panicked>>

Keydown(key) == KeypadStep(KeypadKeydown(keypad, key), "keydown", 0, key)

Keyup(key) == KeypadStep(KeypadKeyup(keypad, key), "keyup", 0, key)

SetJoypadMask(mask) == KeypadStep(KeypadSetMask(keypad, mask), "set_mask", mask, "")

(***************************************************************************)
(* Specification SpecBus: the work-RAM windows, their echoes, high RAM and *)
(* the bank-select register, in the three modes.                           *)
(***************************************************************************)
RamAddrs == {\hC000, \hE000, \hDDFF, \hFDFF, \hDF80, \hFF80}

RamVals == {\h5A}

BankVals == {\h00, \h02, \h0F, \hF8}

ReadAddrs == RamAddrs \cup {\hD000, \hF000, \hFF70}

NextBus ==
    \/ \E a \in RamAddrs, v \in RamVals : Wb(a, v)
    \/ \E v \in BankVals : Wb(\hFF70, v)
    \/ \E a \in ReadAddrs : Rb(a)

SpecBus == Init /\ [][NextBus]_vars

\* the bank a bank-select value names: 1 for v & 7 = 0, v & 7 otherwise
EffectiveBank(v) == IF v % 8 = 0 THEN 1 ELSE v % 8

\* the working-memory offset of a banked-window address under a bank
BankedOffset(bank, address) == bank * 4096 + (address % 4096)

\* C1 as stated: the bank index is in 1..7, a write of v to 0xFF70 makes the
\* effective bank 1 if v & 7 = 0 and v & 7 otherwise in any mode, and reads
\* and writes at 0xD000-0xDFFF resolve to bank * 0x1000 + (address & 0x0FFF).
C1_BankSelectAnyMode ==
    /\ wrambank \in 1..7
    /\ (last.op = "wb" /\ last.addr = \hFF70)
          => wrambank = EffectiveBank(last.value)
    /\ (last.op = "rb" /\ In(last.addr, \hD000, \hDFFF))
          => last.ret = wram[BankedOffset(wrambank, last.addr)]
    /\ (last.op = "wb" /\ In(last.addr, \hD000, \hDFFF))
          => wram = [pre.wram EXCEPT
                        ![BankedOffset(wrambank, last.addr)] = last.value]

\* C1 amended: the bank index is in 1..7 after any sequence of bus writes in
\* any mode; in color mode a write of v to 0xFF70 makes the effective bank 1
\* if v & 7 = 0 and v & 7 otherwise, in the other modes the write is dropped
\* and the bank stays what it was; every read or write at 0xD000-0xDFFF
\* resolves to working-memory offset bank * 0x1000 + (address & 0x0FFF).
C1_BankInvariant ==
    /\ wrambank \in 1..7
    /\ (last.op = "wb" /\ last.addr = \hFF70 /\ gbmode = "Color")
          => wrambank = EffectiveBank(last.value)
    /\ (last.op = "wb" /\ last.addr = \hFF70 /\ gbmode # "Color")
          => wrambank = pre.wrambank
    /\ (last.op = "rb" /\ In(last.addr, \hD000, \hDFFF))
          => last.ret = wram[BankedOffset(wrambank, last.addr)]
    /\ (last.op = "wb" /\ In(last.addr, \hD000, \hDFFF))
          => wram = [pre.wram EXCEPT
                        ![BankedOffset(wrambank, last.addr)] = last.value]

\* a read through the banked window, bank 7 selected, of a byte written there
C1_Witness ==
    /\ gbmode = "Color"
    /\ wrambank = 7
    /\ last.op = "rb" /\ last.addr = \hDDFF /\ last.ret = \h5A
    /\ wram[\h7DFF] = \h5A

\* the tracked addresses of the fixed window and of the banked window
LowWindow == { \hC000 + o : o \in RamOffs }

BankedWindow == { \hD000 + o : o \in RamOffs }

\* the other window of an address of a work-RAM window or of its echo
Twin(address) == IF address < \hE000 THEN address + \h2000 ELSE address - \h2000

\* C2 as stated: read(a) = read(a + 0x2000) for every a in 0xC000-0xCFFF and
\* for every a in 0xD000-0xDFFF, and a write through a window or its echo is
\* visible through the other.
C2_EchoWholeWindow ==
    /\ \A a \in LowWindow \cup BankedWindow : RbValue(a) = RbValue(a + \h2000)
    /\ (last.op = "wb" /\ In(last.addr, \hC000, \hDFFF))
          => RbValue(last.addr + \h2000) = last.value

\* C2 amended: read(a) = read(a + 0x2000) for every a in 0xC000-0xCFFF and for
\* every a in 0xD000-0xDDFF (the banked echo window ends at 0xFDFF; 0xDE00-
\* 0xDFFF have no echo), whatever bank is selected, and a write through a
\* window or its echo is visible through the other.
C2_EchoEquivalence ==
    /\ \A a \in LowWindow : RbValue(a) = RbValue(a + \h2000)
    /\ \A a \in BankedWindow : a <= \hDDFF => RbValue(a) = RbValue(a + \h2000)
    /\ (last.op = "wb" /\ (In(last.addr, \hC000, \hDDFF) \/ In(last.addr, \hE000, \hFDFF)))
          => /\ RbValue(Twin(last.addr)) = last.value
             /\ RbValue(last.addr) = last.value

\* a write through the banked echo, bank 2 selected, seen at 0xDDFF
C2_Witness ==
    /\ wrambank = 2
    /\ last.op = "wb" /\ last.addr = \hFDFF /\ last.value = \h5A
    /\ pre.wram[\h2DFF] # \h5A
    /\ RbValue(\hDDFF) = \h5A

(***************************************************************************)
(* Specification SpecKeypad: the keypad behind 0xFF00, the three entry     *)
(* points of the device and the scheduler advance that folds its request.  *)
(***************************************************************************)
PadKeys == {"Right", "Down", "A", "Start"}

PadMasks == {\h00, \h01, \h10, \h88}

PadSelectors == {\h00, \h10, \h20, \h30, \hCF}

AdvanceTicks == {4}

NextKeypad ==
    \/ \E v \in PadSelectors : Wb(\hFF00, v)
    \/ Rb(\hFF00)
    \/ \E key \in PadKeys : Keydown(key)
    \/ \E key \in PadKeys : Keyup(key)
    \/ \E mask \in PadMasks : SetJoypadMask(mask)
    \/ \E t \in AdvanceTicks : DoCycle(t, FALSE, 0, 0)

SpecKeypad == InitIn({"Classic", "Color"}, {FrameZero}) /\ [][NextKeypad]_vars

\* no key is held: both rows read 0xF
NoKeyPressed(k) == k.row0 = 15 /\ k.row1 = 15

\* the row of the key is selected by the selector bits of the register
RowSelected(k, key) ==
    IF key \in {"Right", "Left", "Up", "Down"}
    THEN (k.data \div 16) % 2 = 0
    ELSE (k.data \div 32) % 2 = 0

\* the mask presses a key of a selected row
MaskHitsSelected(k, mask) ==
    \/ (mask % 16 # 0 /\ (k.data \div 16) % 2 = 0)
    \/ (mask \div 16 # 0 /\ (k.data \div 32) % 2 = 0)

\* bit 4, the input interrupt bit, of a request byte
InputBit(x) == (x \div 16) % 2 = 1

\* C3 as stated: from a state with no key pressed, pressing any key (keydown
\* or set_mask) sets the input interrupt bit, the next advance folds it into
\* the pending register, and pressing a second key while one is pressed does
\* not raise it again.
C3_EdgeFromAnyState ==
    /\ (last.op = "keydown" /\ NoKeyPressed(pre.keypad))
          => InputBit(keypad.interrupt)
    /\ (last.op = "set_mask" /\ last.value # 0 /\ NoKeyPressed(pre.keypad))
          => InputBit(keypad.interrupt)
    /\ (last.op = "do_cycle" /\ InputBit(pre.keypad.interrupt))
          => (InputBit(intf) /\ keypad.interrupt = 0)
    /\ (last.op = "keydown" /\ ~NoKeyPressed(pre.keypad))
          => keypad.interrupt = pre.keypad.interrupt

\* C3 amended: from a state whose visible nibble is 0xF (no key of a selected
\* row is down), pressing a key of a selected row (keydown, or set_mask with
\* such a key) sets the input interrupt bit 0x10, which the next scheduler
\* advance folds into the pending-interrupt register; a press while the
\* visible nibble is not 0xF does not raise it again, and a keydown of a key
\* whose row is not selected raises nothing.
C3_InterruptEdge ==
    /\ (last.op = "keydown" /\ pre.keypad.data % 16 = 15
            /\ RowSelected(pre.keypad, last.key))
          => InputBit(keypad.interrupt)
    /\ (last.op = "set_mask" /\ pre.keypad.data % 16 = 15
            /\ MaskHitsSelected(pre.keypad, last.value))
          => InputBit(keypad.interrupt)
    /\ (last.op = "do_cycle" /\ InputBit(pre.keypad.interrupt))
          => (InputBit(intf) /\ keypad.interrupt = 0)
    /\ (last.op \in {"keydown", "set_mask"} /\ pre.keypad.data % 16 # 15)
          => keypad.interrupt = pre.keypad.interrupt
    /\ (last.op = "keydown" /\ ~RowSelected(pre.keypad, last.key))
          => keypad.interrupt = pre.keypad.interrupt

\* a second key goes down after the first one's request was raised and
\* folded: nothing is raised again
C3_Witness ==
    /\ last.op = "keydown" /\ last.key = "Start"
    /\ pre.keypad.data = \hCE /\ pre.keypad.row1 = \h0E
    /\ pre.keypad.interrupt = 0
    /\ InputBit(pre.intf)
    /\ keypad.row1 = \h06
    /\ keypad.interrupt = 0

(***************************************************************************)
(* Specification SpecDma: the VRAM DMA registers 0xFF51..0xFF55 and the    *)
(* scheduler advance that runs the transfers.                              *)
(***************************************************************************)
\* latched source and destination bytes: a work-RAM source (0xC000), a
\* video-RAM source (0x8000, refused), an echo source (0xE000, refused) and
\* a destination high byte
DmaLatches == {<<\hFF51, \hC0>>, <<\hFF51, \h80>>, <<\hFF51, \hE0>>, <<\hFF53, \h1F>>}

\* control bytes: one-shot lengths 0, 2 and 0x7F, blanking lengths 0 and 2
DmaControls == {\h00, \h02, \h7F, \h80, \h82}

DmaReads == {\hFF51, \hFF55}

NextDma ==
    \/ \E w \in DmaLatches : Wb(w[1], w[2])
    \/ \E v \in DmaControls : Wb(\hFF55, v)
    \/ \E a \in DmaReads : Rb(a)
    \/ \E t \in AdvanceTicks, may \in BOOLEAN : DoCycle(t, may, 0, 0)

SpecDma == InitIn({"Classic", "Color"}, {FrameZero}) /\ [][NextDma]_vars

\* the rows a length byte asks for
RowsOf(L) == (L % 128) + 1

\* a row copied from <<s, t>> moves both pointers by 16 and counts the
\* remaining length down, 0 wrapping to 0x7F
AfterRows(snap, n) ==
    /\ hdma_src = snap.hdma_src + 16 * n
    /\ hdma_dst = snap.hdma_dst + 16 * n
    /\ hdma_len = (snap.hdma_len + 128 - (n % 128)) % 128

PointersUnchanged ==
    /\ hdma_src = pre.hdma_src
    /\ hdma_dst = pre.hdma_dst
    /\ hdma_len = pre.hdma_len

\* a control write with high bit 0, issued while no blanking transfer is on
OneShotWrite ==
    /\ last.op = "wb" /\ last.addr = \hFF55 /\ last.value < 128
    /\ pre.hdma_status # "HDMA"

\* C4 as stated: the control write itself performs (L & 0x7F) + 1 rows and
\* the control register has bit 7 set immediately after it.
C4_OneShotAtWrite ==
    OneShotWrite
       => /\ Len(last.rows) = RowsOf(last.value)
          /\ RbValue(\hFF55) >= 128

\* C4 amended: in color mode a control write with high bit 0 and length byte
\* L, issued while no blanking transfer is active and with a legal latched
\* source, copies nothing itself: it arms a one-shot transfer (the control
\* register then reads L & 0x7F, bit 7 clear), and the next scheduler
\* advance performs exactly (L & 0x7F) + 1 sixteen-byte rows, after which
\* the control register reports 'no transfer active' (reads 0xFF).
C4_OneShotAtAdvance ==
    /\ (OneShotWrite /\ gbmode = "Color" /\ ~panicked)
          => /\ Len(last.rows) = 0
             /\ hdma_status = "GDMA"
             /\ RbValue(\hFF55) = last.value % 128
    /\ (last.op = "do_cycle" /\ pre.hdma_status = "GDMA")
          => /\ Len(last.rows) = RowsOf(pre.hdma_len)
             /\ \A i \in 1..Len(last.rows) :
                   last.rows[i] = <<pre.hdma_src + 16 * (i - 1),
                                    pre.hdma_dst + 16 * (i - 1)>>
             /\ hdma_status = "NoDMA"
             /\ RbValue(\hFF55) = \hFF

\* a one-shot transfer of length byte 2 has run: three rows from 0xC000
C4_Witness ==
    /\ last.op = "do_cycle" /\ pre.hdma_status = "GDMA"
    /\ pre.hdma_len = 2 /\ pre.hdma_src = \hC000
    /\ Len(last.rows) = 3
    /\ hdma_status = "NoDMA"

\* C5: while a blanking-row transfer is active, a scheduler advance copies
\* exactly one 16-byte row if the video unit accepts a row, and otherwise
\* copies none and leaves source, destination and remaining length unchanged.
C5_BlankingRowPerAdvance ==
    (last.op = "do_cycle" /\ pre.hdma_status = "HDMA")
       => IF last.may
          THEN /\ last.rows = << <<pre.hdma_src, pre.hdma_dst>> >>
               /\ AfterRows(pre, 1)
          ELSE /\ last.rows = <<>>
               /\ PointersUnchanged
               /\ hdma_status = "HDMA"

\* an advance during a blanking transfer, the video unit not accepting
C5_Witness ==
    /\ last.op = "do_cycle" /\ pre.hdma_status = "HDMA" /\ ~last.may
    /\ pre.hdma_len = 1
    /\ hdma_status = "HDMA"

\* C6: a control write with high bit 0 while a blanking-row transfer is
\* active cancels it: status 'no transfer', no row copied, source,
\* destination and remaining length unchanged.
C6_CancelBlanking ==
    (last.op = "wb" /\ last.addr = \hFF55 /\ last.value < 128
        /\ pre.hdma_status = "HDMA")
       => /\ hdma_status = "NoDMA"
          /\ last.rows = <<>>
          /\ PointersUnchanged

\* a blanking transfer that had copied a row is cancelled
C6_Witness ==
    /\ last.op = "wb" /\ last.addr = \hFF55 /\ last.value = 2
    /\ pre.hdma_status = "HDMA" /\ pre.hdma_len = 1
    /\ hdma_status = "NoDMA" /\ hdma_len = 1

\* a control write with high bit 1 while a blanking-row transfer is active
BlankingRestart ==
    /\ last.op = "wb" /\ last.addr = \hFF55 /\ last.value >= 128
    /\ pre.hdma_status = "HDMA"

\* C7 as stated: starting a blanking-row transfer while one is active
\* cancels the active one: afterwards the status is 'no transfer'.
C7_RestartCancels == BlankingRestart => hdma_status = "NoDMA"

\* C7 amended: a control write with high bit 1 while a blanking-row transfer
\* is active is ignored: no second transfer starts, no row is copied, and
\* the active transfer stays active with its source, destination and
\* remaining length unchanged.
C7_RestartIgnored ==
    BlankingRestart
       => /\ hdma_status = "HDMA"
          /\ last.rows = <<>>
          /\ PointersUnchanged

\* a second blanking start, of another length, during a running transfer
C7_Witness ==
    /\ BlankingRestart
    /\ last.value = \h80 /\ pre.hdma_len = 1
    /\ hdma_status = "HDMA" /\ hdma_len = 1

(***************************************************************************)
(* MMU::write_mirror and Device::maybe_write_mirror                        *)
(***************************************************************************)
\* n.to_le_bytes() of a k-byte integer
ToLeBytes(n, k) == [i \in 1..k |-> (n \div (256 ^ (i - 1))) % 256]

\* u16::from_be_bytes([hi, lo])
FromBeBytes(hi, lo) == hi * 256 + lo

\* `(bcd[0] as u32)*10000 + (bcd[1] as u32)*100 + (bcd[2] as u32)`, bcd the
\* sequence of the three source bytes
MoneyDecode(bcd) == bcd[1] * 10000 + bcd[2] * 100 + bcd[3]

\* the four bytes write_mirror stores at 0x050 for the source bytes bcd
MoneyField(bcd) == ToLeBytes(MoneyDecode(bcd), 4)

\* wrapping_add(1) on the u32 frame counter
NextFrame(n) ==
    IF n.lo = \hFFFF THEN FrameCount((n.hi + 1) % 65536, 0)
    ELSE FrameCount(n.hi, n.lo + 1)

\* to_le_bytes() of the u32 frame counter
FrameLeBytes(n) == ToLeBytes(n.lo, 2) \o ToLeBytes(n.hi, 2)

\* The statements of write_mirror after the frame counter, in program order:
\* kind copy stores n bytes of wram from src at mirror offset dst, be16 the
\* little-endian form of the big-endian pair at src, money the decoded money
\* of the three bytes at src, zero n zero bytes.
MirrorStep(kind, dst, src, n) == [kind |-> kind, dst |-> dst, src |-> src, n |-> n]

MirrorSteps ==
    << MirrorStep("copy", \h004, \hDA00, 1),
       MirrorStep("copy", \h005, \hDA01, 1),
       MirrorStep("copy", \h006, \hD20D, 1),
       MirrorStep("copy", \h007, \hD20E, 1),
       MirrorStep("copy", \h008, \hDA22, 1) >>
    \o [i \in 1..6 |->
          MirrorStep("copy", \h009 + (i - 1) * 11, \hDA2A + (i - 1) * 11, 11)]
    \o << MirrorStep("copy", \h049, \hD116, 1),
          MirrorStep("copy", \h04A, \hD0ED, 1),
          MirrorStep("copy", \h04B, \hD0FC, 1),
          MirrorStep("be16", \h04C, \hD0FF, 2),
          MirrorStep("be16", \h04E, \hD101, 2),
          MirrorStep("money", \h050, \hD573, 3),
          MirrorStep("copy", \h054, \hD57C, 1),
          MirrorStep("zero", \h055, 0, 3),
          MirrorStep("copy", \h058, \hFFD3, 2) >>

\* the wram indices a statement reads
StepReads(st) == IF st.kind = "zero" THEN {} ELSE st.src .. (st.src + st.n - 1)

\* indexing wram panics at an index that is not below its length
InBounds(i) == i < WRAM_SIZE

\* the bytes a statement stores, from working memory w
StepBytes(w, st) ==
    IF st.kind = "copy" THEN [j \in 1..st.n |-> w[st.src + j - 1]]
    ELSE IF st.kind = "be16"
         THEN ToLeBytes(FromBeBytes(w[st.src], w[st.src + 1]), 2)
    ELSE IF st.kind = "money"
         THEN MoneyField(<<w[st.src], w[st.src + 1], w[st.src + 2]>>)
    ELSE [j \in 1..st.n |-> 0]

\* mirror m with the bytes stored from offset dst on
Store(m, dst, bytes) ==
    [i \in 1..Len(m) |->
        IF dst < i /\ i <= dst + Len(bytes) THEN bytes[i - dst] ELSE m[i]]

\* the statements from the i-th on: the run stops, unwinding, at the first
\* statement that reads outside working memory
RECURSIVE RunMirrorSteps(_, _, _)
RunMirrorSteps(m, w, i) ==
    IF i > Len(MirrorSteps) THEN [mirror |-> m, panicked |-> FALSE]
    ELSE IF \E x \in StepReads(MirrorSteps[i]) : ~InBounds(x)
         THEN [mirror |-> m, panicked |-> TRUE]
    ELSE RunMirrorSteps(Store(m, MirrorSteps[i].dst, StepBytes(w, MirrorSteps[i])),
                        w, i + 1)

\* write_mirror on mirror m, working memory w and frame counter n
WriteMirror(m, w, n) ==
    RunMirrorSteps(Store(m, \h000, FrameLeBytes(NextFrame(n))), w, 1)

\* Device::maybe_write_mirror; vblank is the answer of gpu.take_vblank()
MaybeWriteMirror(vblank) ==
    LET r == WriteMirror(mirror, wram, frame_counter) IN
    /\ ~panicked
    /\ frame_counter' = IF vblank THEN NextFrame(frame_counter) ELSE frame_counter
    /\ mirror' = IF vblank THEN r.mirror ELSE mirror
    /\ panicked' = IF vblank THEN r.panicked ELSE panicked
    /\ last' = Op("maybe_write_mirror", 0, 0, "", 0, <<>>, vblank)
    /\ pre' = Snapshot
    /\ UNCHANGED <<gbmode, wram, zram, hdma, inte, intf, keypad,
                   timer_interrupt, gpu_interrupt, serial_interrupt,
                   hdma_status, hdma_src, hdma_dst, hdma_len, wrambank,
                   gbspeed, speed_switch_req, undocumented_cgb_regs>>

(***************************************************************************)
(* Device::step_frame, one action per iteration of its loop: the           *)
(* instruction step with the scheduler advance (do_cycle), then            *)
(* maybe_write_mirror, then the frame-ready check.  vblank is the answer   *)
(* of gpu.take_vblank() and updated the value of gpu.updated in this       *)
(* iteration; the other inputs are those of DoCycle.  last.op is           *)
(* "step_frame" after an iteration that goes round the loop again (or      *)
(* unwinds) and "step_frame_return" after the one that returns the frame;  *)
(* last.may keeps vblank and last.value updated (1/0).                     *)
(***************************************************************************)
StepFrame(ticks, may_hdma, tirq, girq, vblank, updated) ==
    LET r  == PerformVramdma(Dma, may_hdma)
        i1 == BitOr(intf, BitOr(timer_interrupt, tirq))
        i2 == BitOr(i1, keypad.interrupt)
        i3 == BitOr(i2, BitOr(gpu_interrupt, girq))
        i4 == BitOr(i3, serial_interrupt)
        m  == WriteMirror(mirror, wram, frame_counter)
        unwinds == vblank /\ m.panicked
    IN
    /\ ~panicked
    /\ hdma_status' = r.d.status
    /\ hdma_src' = r.d.src
    /\ hdma_dst' = r.d.dst
    /\ hdma_len' = r.d.len
    /\ intf' = i4
    /\ timer_interrupt' = 0
    /\ keypad' = [keypad EXCEPT !.interrupt = 0]
    /\ gpu_interrupt' = 0
    /\ serial_interrupt' = 0
    /\ frame_counter' = IF vblank THEN NextFrame(frame_counter) ELSE frame_counter
    /\ mirror' = IF vblank THEN m.mirror ELSE mirror
    /\ panicked' = unwinds
    /\ last' = Op(IF updated /\ ~unwinds THEN "step_frame_return" ELSE "step_frame",
                  0, IF updated THEN 1 ELSE 0, "", 0, r.d.rows, vblank)
    /\ pre' = Snapshot
    /\ UNCHANGED <<gbmode, wram, zram, hdma, inte, wrambank, gbspeed,
                   speed_switch_req, undocumented_cgb_regs>>

(***************************************************************************)
(* Specification SpecMirror: working-memory writes and the mirror write    *)
(* at the blanking edge.  The frame counter has no initialiser in          *)
(* MMU::new; a session restored by Device::load_state carries the counter  *)
(* it was saved with, so the specification starts it at 0 and just below   *)
(* the wrap.                                                               *)
(***************************************************************************)
MirrorRamAddrs == {\hC000, \hDDFF, \hDF80}

FrameCounterStarts == {FrameZero, FrameCount(\hFFFF, \hFFFF)}

NextMirror ==
    \/ \E a \in MirrorRamAddrs, v \in RamVals : Wb(a, v)
    \/ \E v \in BankVals : Wb(\hFF70, v)
    \/ \E vblank \in BOOLEAN : MaybeWriteMirror(vblank)

SpecMirror == InitIn({"Color"}, FrameCounterStarts) /\ [][NextMirror]_vars

\* the mirror write has run: the blanking edge was taken
MirrorWritten == last.op = "maybe_write_mirror" /\ last.may

\* C8: every write_mirror invocation produces a mirror buffer whose frame
\* counter (little-endian u32 at offset 0) is one more than before, wrapping
\* to 0 after 2^32 - 1, and two consecutive invocations on unchanged working
\* memory produce buffers identical in every byte but those four.
C8_MirrorDeterminism ==
    MirrorWritten
       => /\ ~panicked
          /\ \/ /\ pre.frame_counter.lo < 65535
                /\ frame_counter.hi = pre.frame_counter.hi
                /\ frame_counter.lo = pre.frame_counter.lo + 1
             \/ /\ pre.frame_counter.lo = 65535
                /\ pre.frame_counter.hi < 65535
                /\ frame_counter.hi = pre.frame_counter.hi + 1
                /\ frame_counter.lo = 0
             \/ /\ pre.frame_counter = [hi |-> 65535, lo |-> 65535]
                /\ frame_counter = [hi |-> 0, lo |-> 0]
          /\ mirror[1] = frame_counter.lo % 256
          /\ mirror[2] = frame_counter.lo \div 256
          /\ mirror[3] = frame_counter.hi % 256
          /\ mirror[4] = frame_counter.hi \div 256
          /\ (last.prev = "maybe_write_mirror" /\ wram = pre.wram)
                => \A i \in 5..Len(mirror) : mirror[i] = pre.mirror[i]

(***************************************************************************)
(* Specification SpecMoney: the money decoding of write_mirror applied to  *)
(* three source bytes.                                                     *)
(***************************************************************************)
MoneyBytes == {\h00, \h01, \h09, \h23, \h45, \h99}

DecodeMoney(bcd) ==
    /\ last' = Op("money", 0, bcd, "", MoneyField(bcd), <<>>, FALSE)
    /\ pre' = Snapshot
    /\ UNCHANGED <<gbmode, wram, zram, hdma, inte, intf, keypad,
                   timer_interrupt, gpu_interrupt, serial_interrupt,
                   hdma_status, hdma_src, hdma_dst, hdma_len, wrambank,
                   gbspeed, speed_switch_req, undocumented_cgb_regs, mirror,
                   frame_counter, panicked>>

NextMoney == \E b0 \in MoneyBytes, b1 \in MoneyBytes, b2 \in MoneyBytes :
                DecodeMoney(<<b0, b1, b2>>)

SpecMoney == InitIn({"Color"}, {FrameZero}) /\ [][NextMoney]_vars

\* the number the two binary-coded decimal digits of a byte spell
BcdByte(b) == (b \div 16) * 10 + (b % 16)

\* C9: the 4-byte little-endian money field is the decimal number the six
\* binary-coded decimal digits of the three source bytes spell: 0x01, 0x23,
\* 0x45 give 12345.
C9_MoneyDecode ==
    last.op = "money"
       => LET n == BcdByte(last.value[1]) * 10000
                   + BcdByte(last.value[2]) * 100
                   + BcdByte(last.value[3])
          IN  last.ret = <<n % 256, (n \div 256) % 256,
                           (n \div 65536) % 256, (n \div 16777216) % 256>>

(***************************************************************************)
(* Specification SpecGate: the color-only registers, written and read in   *)
(* the three modes.                                                        *)
(***************************************************************************)
\* the registers the two guarded arms of rb and wb name, but for the PCM
\* pair 0xFF76..0xFF77
ColorOnlyRegs ==
    {\hFF4D, \hFF4F, \hFF51, \hFF52, \hFF53, \hFF54, \hFF55, \hFF6C, \hFF70,
     \hFF72, \hFF73, \hFF75}

\* 0xFF4F is answered by the video unit in color mode
BusOwnedRegs == ColorOnlyRegs \ {\hFF4F}

GateVals == {\h5A}

\* further writes: a speed-switch request, bank 0 and a blanking transfer
GateWrites == {<<\hFF4D, \h01>>, <<\hFF70, \h00>>, <<\hFF55, \h82>>}

\* The registers fall into groups that share no state: the DMA registers,
\* the bank select, the undocumented bytes and the speed switch.  Each group
\* is exercised while the other groups hold their constructed values.
GateGroup(a) ==
    IF In(a, \hFF51, \hFF55) THEN "dma"
    ELSE IF a = \hFF70 THEN "bank"
    ELSE IF a \in {\hFF72, \hFF73, \hFF75} THEN "undoc"
    ELSE IF a = \hFF4D THEN "speed"
    ELSE "none"

GroupFresh(g) ==
    IF g = "dma" THEN hdma = [i \in 0..3 |-> 0] /\ hdma_status = "NoDMA"
                      /\ hdma_len = \hFF
    ELSE IF g = "bank" THEN wrambank = 1
    ELSE IF g = "undoc" THEN undocumented_cgb_regs = [i \in 0..2 |-> 0]
    ELSE IF g = "speed" THEN gbspeed = "Single" /\ ~speed_switch_req
    ELSE TRUE

OthersFresh(a) ==
    \A g \in {"dma", "bank", "undoc", "speed"} \ {GateGroup(a)} : GroupFresh(g)

NextGate ==
    \/ \E a \in ColorOnlyRegs, v \in GateVals : OthersFresh(a) /\ Wb(a, v)
    \/ \E w \in GateWrites : OthersFresh(w[1]) /\ Wb(w[1], w[2])
    \/ \E a \in ColorOnlyRegs : Rb(a)
    \/ OthersFresh(\hFF4D) /\ SwitchSpeed

SpecGate == Init /\ [][NextGate]_vars

\* a write to a color-only register the bus answers itself
GateWrite == last.op = "wb" /\ last.addr \in BusOwnedRegs

\* in classic mode a color-only register reads 0xFF and a write to it
\* changes no bus state
ClassicGated ==
    (gbmode = "Classic" /\ last.op \in {"rb", "wb"} /\ last.addr \in ColorOnlyRegs)
       => /\ Snapshot = pre
          /\ ~panicked
          /\ last.op = "rb" => last.ret = \hFF

\* C10 as stated: in classic mode a read of a color-only register returns
\* 0xFF and a write changes no bus state; in color mode the value written to
\* such a register is what the next read of it returns.
C10_RoundTripUnchanged ==
    /\ ClassicGated
    /\ (gbmode = "Color" /\ GateWrite /\ ~panicked)
          => RbValue(last.addr) = last.value

\* what a read returns after value v went to register a in color mode
ReadBack(a, v) ==
    IF a \in {\hFF51, \hFF72, \hFF73} THEN v
    ELSE IF a \in {\hFF52, \hFF54} THEN v - (v % 16)
    ELSE IF a = \hFF53 THEN v % 32
    ELSE IF a = \hFF70 THEN (IF v % 8 = 0 THEN 1 ELSE v % 8)
    ELSE IF a = \hFF75 THEN BitOr(v, \h8F)
    ELSE IF a = \hFF4D
         THEN \h7E + (IF gbspeed = "Double" THEN \h80 ELSE 0)
                   + (IF pre.speed_switch_req \/ v % 2 = 1 THEN 1 ELSE 0)
    ELSE IF a = \hFF55
         THEN (IF pre.hdma_status = "HDMA"
               THEN pre.hdma_len + (IF v < 128 THEN \h80 ELSE 0)
               ELSE v % 128)
    ELSE \hFF

\* C10 amended: in classic mode a read of any color-only register returns
\* 0xFF and a write to it changes no bus state.  In color mode the next read
\* returns the written value v unchanged only at 0xFF51, 0xFF72 and 0xFF73;
\* 0xFF52 and 0xFF54 return v & 0xF0, 0xFF53 returns v & 0x1F, 0xFF70 the
\* effective bank (1 if v & 7 = 0, else v & 7), 0xFF75 returns v | 0x8F,
\* 0xFF4D returns 0x7E | speed bit | request bit, 0xFF55 the transfer status
\* byte, and 0xFF6C is unmapped: it reads 0xFF and the write is dropped.
C10_ModeGating ==
    /\ ClassicGated
    /\ (gbmode = "Color" /\ GateWrite /\ ~panicked)
          => RbValue(last.addr) = ReadBack(last.addr, last.value)
    /\ (gbmode = "Color" /\ last.op = "wb" /\ last.addr = \hFF6C)
          => Snapshot = pre
    /\ (gbmode = "Color" /\ last.op = "rb" /\ last.addr \in BusOwnedRegs)
          => (last.ret = RbValue(last.addr) /\ Snapshot = pre)

\* in color mode 0x5A went to the low source latch, which now reads 0x50
C10_Witness ==
    /\ gbmode = "Color" /\ last.op = "wb" /\ last.addr = \hFF52
    /\ last.value = \h5A /\ hdma[1] = \h50
    /\ RbValue(\hFF52) = \h50

(***************************************************************************)
(* Specification SpecOpen: accesses to addresses no arm of rb or wb names,  *)
(* among accesses that do change the bus.                                  *)
(***************************************************************************)
\* addresses that fall to the default arms `_ => 0xFF` and `_ => {}`
UnmappedAddrs ==
    {\hFEA0, \hFEFF, \hFF03, \hFF08, \hFF0E, \hFF50, \hFF56, \hFF67, \hFF71,
     \hFF7F}

\* mapped addresses written in between: work RAM, high RAM, the pending and
\* enabled interrupt registers, the bank select and a DMA latch
OpenMappedAddrs == {\hC000, \hFF80, \hFF0F, \hFFFF, \hFF70, \hFF51}

OpenVals == {\h00, \h02}

NextOpen ==
    \/ \E a \in UnmappedAddrs, v \in OpenVals : Wb(a, v)
    \/ \E a \in UnmappedAddrs : Rb(a)
    \/ \E a \in OpenMappedAddrs : Wb(a, \h02)
    \/ \E a \in OpenMappedAddrs : Rb(a)

SpecOpen == Init /\ [][NextOpen]_vars

\* C11: a read of an address the bus maps to no region or register returns
\* 0xFF, a write to it leaves the whole bus state unchanged, and neither
\* fails.
C11_UnmappedAccess ==
    (last.op \in {"rb", "wb"} /\ last.addr \in UnmappedAddrs)
       => /\ Snapshot = pre
          /\ ~panicked
          /\ last.op = "rb" => last.ret = \hFF

\* an unmapped write after the bus state had been changed: the work-RAM
\* bank stays 2 and the pending register keeps its value
C11_Witness ==
    /\ last.op = "wb" /\ last.addr = \hFF50 /\ last.value = \h02
    /\ wrambank = 2 /\ pre.wrambank = 2
    /\ intf = \h02 /\ zram[0] = \h02

\* the source the latches of a snapshot spell lies in 0x8000..0x9FFF or at
\* 0xE000 and above
IllegalSource(snap) ==
    LET src == snap.hdma[0] * 256 + snap.hdma[1]
    IN  In(src, \h8000, \h9FFF) \/ src >= \hE000

\* a control write that would start a transfer: color mode, no blanking
\* transfer active
StartingWrite ==
    /\ last.op = "wb" /\ last.addr = \hFF55
    /\ pre.gbmode = "Color" /\ pre.hdma_status # "HDMA"

\* C12: a control write that would start a transfer from a source in
\* 0x8000..0x9FFF or at 0xE000 and above is fatal: the session ends there
\* (nothing acts afterwards), the DMA status, source, destination and length
\* are not modified and no row is copied.
C12_IllegalSourceFatal ==
    /\ [](StartingWrite /\ IllegalSource(pre)
            => /\ panicked
               /\ hdma_status = pre.hdma_status
               /\ PointersUnchanged
               /\ last.rows = <<>>)
    /\ [][~panicked]_vars

\* a one-shot start from the echo source 0xE000, after a transfer from
\* 0xC000 had been programmed: refused, the old pointers stay
C12_Witness ==
    /\ StartingWrite /\ last.value = \h02
    /\ pre.hdma[0] = \hE0
    /\ panicked
    /\ hdma_src = \hC000 /\ hdma_status = "NoDMA"

(***************************************************************************)
(* Specification SpecIrq: the request flags of the timer, the keypad, the  *)
(* video unit and the serial port, and the scheduler advance that folds    *)
(* them into the pending-interrupt register.                               *)
(***************************************************************************)
\* request bits the timer (0x04) and the video unit (0x01 | 0x02) raise while
\* they advance
TimerRequests == {\h00, \h04}

VideoRequests == {\h00, \h03}

\* values the instruction collaborator writes to the pending register
PendingVals == {\h00, \h01}

NextIrq ==
    \/ \E t \in AdvanceTicks, tirq \in TimerRequests, girq \in VideoRequests :
          DoCycle(t, FALSE, tirq, girq)
    \/ \E v \in PendingVals : Wb(\hFF0F, v)
    \/ Wb(\hFF02, \h81)
    \/ Wb(\hFF00, \h00)
    \/ Keydown("A")
    \/ Keyup("A")
    \/ Rb(\hFF0F)

SpecIrq == InitIn({"Color"}, {FrameZero}) /\ [][NextIrq]_vars

\* every bit of x is set in y
BitsIn(x, y) == BitAnd(x, y) = x

\* C13: after every scheduler advance the request flags of timer, keypad,
\* video unit and serial port are all 0, every bit that was set in one of
\* them is set in the pending-interrupt register, and no bit of the pending
\* register that was set before the advance is cleared by it.
C13_InterruptAggregation ==
    last.op = "do_cycle"
       => /\ timer_interrupt = 0
          /\ keypad.interrupt = 0
          /\ gpu_interrupt = 0
          /\ serial_interrupt = 0
          /\ BitsIn(pre.timer_interrupt, intf)
          /\ BitsIn(pre.keypad.interrupt, intf)
          /\ BitsIn(pre.gpu_interrupt, intf)
          /\ BitsIn(pre.serial_interrupt, intf)
          /\ BitsIn(pre.intf, intf)

\* an advance folds a keypad and a serial request into a pending register
\* that already held the blanking bit
C13_Witness ==
    /\ last.op = "do_cycle"
    /\ pre.keypad.interrupt = \h10 /\ pre.serial_interrupt = \h08
    /\ pre.intf = \h01
    /\ intf = \h19
    /\ keypad.interrupt = 0 /\ serial_interrupt = 0

\* C14: switch_speed toggles the speed between single and double if and only
\* if a switch request is pending and always leaves the request cleared; a
\* request is raised only by a color-mode write to 0xFF4D with bit 0 set, so
\* the second of two commits in a row leaves the speed as it is.
C14_SpeedSwitch ==
    /\ last.op = "switch_speed"
          => /\ ~speed_switch_req
             /\ (gbspeed # pre.gbspeed) <=> pre.speed_switch_req
             /\ {gbspeed, pre.gbspeed} \subseteq {"Single", "Double"}
    /\ (speed_switch_req /\ ~pre.speed_switch_req)
          => /\ last.op = "wb" /\ last.addr = \hFF4D
             /\ last.value % 2 = 1
             /\ gbmode = "Color"
    /\ (last.op = "switch_speed" /\ last.prev = "switch_speed")
          => gbspeed = pre.gbspeed

\* a requested switch is committed from double speed back to single
C14_Witness ==
    /\ last.op = "switch_speed"
    /\ pre.speed_switch_req /\ pre.gbspeed = "Double"
    /\ gbspeed = "Single" /\ ~speed_switch_req

(***************************************************************************)
(* Specification SpecOam: writes to the OAM DMA trigger 0xFF46 among       *)
(* writes to work RAM and high RAM, in the three modes.                    *)
(***************************************************************************)
\* source pages: ROM, video RAM, work RAM, object memory itself and the
\* register page
OamPages == {\h00, \h80, \hC0, \hFE, \hFF}

OamRamAddrs == {\hC000, \hFF80}

NextOam ==
    \/ \E v \in OamPages : Wb(\hFF46, v)
    \/ \E a \in OamRamAddrs, v \in RamVals : Wb(a, v)
    \/ \E a \in OamRamAddrs : Rb(a)

SpecOam == Init /\ [][NextOam]_vars

\* C15: a write of v to 0xFF46 performs, within the write, exactly 160 bus
\* reads at (v << 8) + i and 160 bus writes at 0xFE00 + i, i = 0..159 in
\* increasing order, for every v (0xFE and 0xFF included) and in every mode;
\* it does not fail.
C15_OamDma ==
    (last.op = "wb" /\ last.addr = \hFF46)
       => /\ Len(last.rows) = 160
          /\ \A i \in 1..160 :
                last.rows[i] = <<last.value * 256 + (i - 1), 65024 + (i - 1)>>
          /\ ~panicked

\* the trigger written with the register page: the last read is at 0xFF9F
C15_Witness ==
    /\ last.op = "wb" /\ last.addr = \hFF46 /\ last.value = \hFF
    /\ Len(last.rows) = 160
    /\ last.rows[160] = <<\hFF9F, \hFE9F>>

(***************************************************************************)
(* Specification SpecWord: 16-bit reads and writes at the top of the       *)
(* address space (high RAM, the interrupt-enable register, the wrap to     *)
(* ROM) and across the edge of high RAM.                                   *)
(***************************************************************************)
WordAddrs == {\hFF7F, \hFFFE, \hFFFF}

WordVals == {\h1234, \hA55A}

NextWord ==
    \/ \E a \in WordAddrs, checks \in BOOLEAN : Rw(a, checks)
    \/ \E a \in WordAddrs, v \in WordVals, checks \in BOOLEAN : Ww(a, v, checks)

SpecWord == Init /\ [][NextWord]_vars

\* C16: for every address, 0xFFFF included, a 16-bit read returns
\* read(address) | read(address + 1) << 8, a 16-bit write performs
\* write(address, low byte) then write(address + 1, high byte), and neither
\* fails.
C16_WordAccess ==
    /\ last.op \in {"rw", "ww"}
          => /\ ~panicked
             /\ Len(last.rows) = 2
             /\ last.rows[1][1] = last.addr
             /\ last.rows[2][1] = (last.addr + 1) % 65536
    /\ (last.op = "rw" /\ ~panicked)
          => /\ last.ret = last.rows[1][2] + 256 * last.rows[2][2]
             /\ \A i \in 1..2 :
                   RbArm(last.rows[i][1], gbmode) \notin CollaboratorArms
                      => last.rows[i][2] = RbValue(last.rows[i][1])
    /\ (last.op = "ww" /\ ~panicked)
          => /\ last.rows[1][2] = last.value % 256
             /\ last.rows[2][2] = last.value \div 256
             /\ (last.addr = \hFFFE
                   => zram[\h7E] = last.value % 256 /\ inte = last.value \div 256)
             /\ (last.addr = \hFF7F => zram[\h00] = last.value \div 256)
             /\ (last.addr = \hFFFF => inte = last.value % 256)

\* bits 4 and 5 of a byte
SelectorBits(x) == (x \div 16) % 4

\* the AND of the rows the selector bits of the register select, 0xF when
\* none is selected
SelectedRows(k) ==
    LET r0 == IF (k.data \div 16) % 2 = 0 THEN k.row0 ELSE 15
        r1 == IF (k.data \div 32) % 2 = 0 THEN k.row1 ELSE 15
    IN  BitAnd(r0, r1)

\* C17: after any sequence of wb, keydown, keyup and set_mask, the register
\* rb() returns has bits 6-7 set, bits 4-5 equal to the selector bits last
\* written and a low nibble equal to the AND of the selected rows (0xF when
\* none is selected); wb takes only the two selector bits from the written
\* byte and never changes the rows.
C17_KeypadRegister ==
    /\ keypad.data \div 64 = 3
    /\ keypad.data % 16 = SelectedRows(keypad)
    /\ (last.op = "wb" /\ last.addr = \hFF00)
          => /\ SelectorBits(keypad.data) = SelectorBits(last.value)
             /\ keypad.row0 = pre.keypad.row0
             /\ keypad.row1 = pre.keypad.row1
    /\ last.op \in {"keydown", "keyup", "set_mask", "do_cycle", "rb"}
          => SelectorBits(keypad.data) = SelectorBits(pre.keypad.data)
    /\ (last.op = "rb" /\ last.addr = \hFF00) => last.ret = keypad.data

\* 0xCF written while Start is held: only the selector bits (both rows
\* selected) are taken, the nibble shows the held key
C17_Witness ==
    /\ last.op = "wb" /\ last.addr = \hFF00 /\ last.value = \hCF
    /\ pre.keypad.data = \hFF /\ pre.keypad.row1 = \h07
    /\ keypad.data = \hC7 /\ keypad.row1 = \h07

\* the keys in the order of their mask bits, bit 0 first
KeyOrder == <<"Right", "Left", "Up", "Down", "A", "B", "Select", "Start">>

\* the keypad after keydown for every key of order whose bit is set in the
\* mask m and keyup for every other, taken in that order from the i-th on
RECURSIVE Discrete(_, _, _, _)
Discrete(k, m, order, i) ==
    IF i > Len(order) THEN k
    ELSE LET key == order[i]
             bit == CHOOSE n \in 1..8 : KeyOrder[n] = key
             down == (m \div (2 ^ (bit - 1))) % 2 = 1
         IN  Discrete(IF down THEN KeypadKeydown(k, key) ELSE KeypadKeyup(k, key),
                      m, order, i + 1)

Reversed(seq) == [i \in 1..Len(seq) |-> seq[Len(seq) + 1 - i]]

\* C18: set_mask(m) overwrites both rows from one byte (bit k set = key k
\* pressed, bits 0-3 directions, bits 4-7 buttons): from any keypad state it
\* leaves the rows and the visible register that the keydown/keyup sequence
\* making exactly the keys of m pressed leaves, in whatever order, and it
\* raises the input request exactly when the visible nibble goes from 0xF to
\* another value.
C18_SetMaskEquivalence ==
    last.op = "set_mask"
       => /\ \A order \in {KeyOrder, Reversed(KeyOrder)} :
                LET d == Discrete(pre.keypad, last.value, order, 1)
                IN  /\ keypad.row0 = d.row0
                    /\ keypad.row1 = d.row1
                    /\ keypad.data = d.data
          /\ keypad.interrupt =
                IF pre.keypad.data % 16 = 15 /\ keypad.data % 16 # 15
                THEN BitOr(pre.keypad.interrupt, \h10)
                ELSE pre.keypad.interrupt

\* mask 0x88 (Down and Start) replaces a held A while both rows are
\* selected: no edge, no request
C18_Witness ==
    /\ last.op = "set_mask" /\ last.value = \h88
    /\ pre.keypad.row1 = \h0E /\ pre.keypad.data = \hCE
    /\ pre.keypad.interrupt = 0
    /\ keypad.row0 = \h07 /\ keypad.row1 = \h07 /\ keypad.data = \hC7
    /\ keypad.interrupt = 0

(***************************************************************************)
(* Specification SpecStep: calls of step_frame, with key presses and       *)
(* writes to the pending register between the calls' iterations.           *)
(***************************************************************************)
\* a call of step_frame is between two iterations of its loop; it holds the
\* device, so no other entry point acts until it has returned
InStepFrame == last.op = "step_frame" /\ ~panicked

NextStep ==
    \/ \E t \in AdvanceTicks, may \in BOOLEAN, tirq \in TimerRequests,
          girq \in VideoRequests, vblank \in BOOLEAN, updated \in BOOLEAN :
          StepFrame(t, may, tirq, girq, vblank, updated)
    \/ ~InStepFrame /\ Wb(\hFF00, \h00)
    \/ ~InStepFrame /\ Keydown("A")
    \/ ~InStepFrame /\ Keyup("A")
    \/ \E v \in PendingVals : ~InStepFrame /\ Wb(\hFF0F, v)

SpecStep == InitIn({"Color"}, FrameCounterStarts) /\ [][NextStep]_vars

\* an iteration of step_frame has run
Stepped == last.op \in {"step_frame", "step_frame_return"}

\* C19: in every iteration of step_frame the mirror is written once if the
\* video unit signalled an entered-blanking edge and not at all otherwise,
\* after the instruction step and before the frame-ready check, and the call
\* returns the frame at the first iteration in which the video unit reports
\* frame ready: a mirror read after the return includes every edge.
C19_MirrorPerEdge ==
    Stepped
       => /\ ~panicked
          /\ last.may
                => /\ frame_counter = NextFrame(pre.frame_counter)
                   /\ mirror[1] = frame_counter.lo % 256
                   /\ mirror[2] = frame_counter.lo \div 256
                   /\ mirror[3] = frame_counter.hi % 256
                   /\ mirror[4] = frame_counter.hi \div 256
          /\ ~last.may
                => (mirror = pre.mirror /\ frame_counter = pre.frame_counter)
          /\ (last.op = "step_frame_return") <=> (last.value = 1)

(***************************************************************************)
(* Specification SpecStepLive: SpecStep with the loop of step_frame going  *)
(* on (weak fairness of its iteration) and the video unit reporting frame  *)
(* ready at its cadence (strong fairness of the iteration in which         *)
(* gpu.updated is set).                                                    *)
(***************************************************************************)
StepIteration ==
    \E t \in AdvanceTicks, may \in BOOLEAN, tirq \in TimerRequests,
       girq \in VideoRequests, vblank \in BOOLEAN, updated \in BOOLEAN :
       StepFrame(t, may, tirq, girq, vblank, updated)

ReadyIteration ==
    \E t \in AdvanceTicks, may \in BOOLEAN, tirq \in TimerRequests,
       girq \in VideoRequests, vblank \in BOOLEAN :
       StepFrame(t, may, tirq, girq, vblank, TRUE)

SpecStepLive ==
    SpecStep /\ WF_vars(StepIteration) /\ SF_vars(ReadyIteration)

\* C20: a call of step_frame that the video unit eventually reports frame
\* ready to returns, and no call returns in an iteration in which the video
\* unit did not report frame ready.
C20_StepFrameTerminates ==
    /\ (last.op = "step_frame") ~> (last.op = "step_frame_return")
    /\ [](last.op = "step_frame_return" => last.value = 1)

(***************************************************************************)
(* MMU::reset, MMU::io_reset and Device::reset.  The video RAM and the     *)
(* sprite table MMU::reset clears belong to the video unit.  CPU::reset is *)
(* in src/cpu.rs, which is not among the source files: the comments of     *)
(* Device::reset and MMU::reset have it reset the processor registers, the *)
(* MMU (by MMU::reset), the video unit and the timers; of those the model  *)
(* holds the MMU.                                                          *)
(***************************************************************************)
\* io_reset: its body is comments only
IoReset(b) == b

\* MmuReset flipping the speed where it should restore single speed
MmuResetToggleSpeed(b) ==
    [IoReset([b EXCEPT !.wram = [c \in WramCells |-> 0]])
        EXCEPT !.keypad = KeypadNew,
               !.gbspeed = IF b.gbspeed = "Double" THEN "Single" ELSE "Double"]

\* MMU::reset: zero working memory, io_reset, a new keypad
MmuReset(b) ==
    [IoReset([b EXCEPT !.wram = [c \in WramCells |-> 0]])
        EXCEPT !.keypad = KeypadNew]

CpuReset(b) == MmuReset(b)

\* the fields of the MMU take the values of the record b
BusBecomes(b) ==
    /\ gbmode' = b.gbmode
    /\ wram' = b.wram
    /\ zram' = b.zram
    /\ hdma' = b.hdma
    /\ inte' = b.inte
    /\ intf' = b.intf
    /\ keypad' = b.keypad
    /\ timer_interrupt' = b.timer_interrupt
    /\ gpu_interrupt' = b.gpu_interrupt
    /\ serial_interrupt' = b.serial_interrupt
    /\ hdma_status' = b.hdma_status
    /\ hdma_src' = b.hdma_src
    /\ hdma_dst' = b.hdma_dst
    /\ hdma_len' = b.hdma_len
    /\ wrambank' = b.wrambank
    /\ gbspeed' = b.gbspeed
    /\ speed_switch_req' = b.speed_switch_req
    /\ undocumented_cgb_regs' = b.undocumented_cgb_regs
    /\ mirror' = b.mirror
    /\ frame_counter' = b.frame_counter

\* Device::reset: CPU::reset under catch_unwind, the result of which is
\* dropped (`let _ =`)
DeviceReset ==
    LET b == CpuReset(Bus) IN
    /\ ~panicked
    /\ BusBecomes(b)
    /\ panicked' = FALSE
    /\ last' = Op("reset", 0, 0, "", 0, <<>>, FALSE)
    /\ pre' = Snapshot

(***************************************************************************)
(* Specification SpecReset: resets between writes that take each group of  *)
(* bus fields away from its power-on value.                                *)
(***************************************************************************)
ResetWrites ==
    {<<\hC000, \h5A>>, <<\hFF80, \h5A>>, <<\hFF0F, \h04>>, <<\hFF70, \h02>>,
     <<\hFF4D, \h01>>, <<\hFF55, \h81>>}

NextReset ==
    \/ \E w \in ResetWrites : Wb(w[1], w[2])
    \/ SwitchSpeed
    \/ Keydown("A")
    \/ DeviceReset

SpecReset == InitIn({"Color"}, FrameCounterStarts) /\ [][NextReset]_vars

\* C21: a reset that follows a reset leaves every bus field (working
\* memory, high RAM, keypad, DMA state, bank, interrupt registers, speed
\* state, mirror, frame counter) as the first reset left it.
C21_ResetIdempotent ==
    (last.op = "reset" /\ last.prev = "reset") => Snapshot = pre

\* a second reset in a row, in a session that had left its power-on state
C21_Witness ==
    /\ last.op = "reset"
    /\ last.prev = "reset"
    /\ wrambank = 2
    /\ gbspeed = "Double"
    /\ hdma_status = "HDMA"

\* C25: after Device::reset the DMA status is no transfer, the work-RAM bank
\* is 1, the speed is single with no switch request pending, the pending and
\* enabled interrupt registers, high RAM and working memory hold the values
\* MMU::new gives them, and no key is pressed.
C25_ResetPowerOn ==
    last.op = "reset" =>
        /\ hdma_status = "NoDMA"
        /\ wrambank = 1
        /\ gbspeed = "Single"
        /\ ~speed_switch_req
        /\ intf = 0
        /\ inte = 0
        /\ zram = [c \in ZramCells |-> 0]
        /\ wram = FillRandom42
        /\ keypad.row0 = \h0F
        /\ keypad.row1 = \h0F

(***************************************************************************)
(* The exported mirror offsets (mmu.rs:16-29) next to the layout table     *)
(* (mmu.rs:31-64) and the statements of write_mirror.                      *)
(***************************************************************************)
MIRROR_ENEMY_HP == \h04C

MIRROR_MONEY == \h04E

MIRROR_BADGES == \h051

\* `pub const MIRROR_SIZE` is defined twice, at mmu.rs:29 and mmu.rs:65: the
\* values a build that keeps one of the two exports
MirrorSizeExports == {\h052, \h068}

\* the statement of write_mirror that stores at mirror offset dst
StatementAt(dst) ==
    CHOOSE st \in {MirrorSteps[i] : i \in 1..Len(MirrorSteps)} : st.dst = dst

\* C22: after write_mirror the buffer is 104 bytes; enemy current HP is at
\* 0x4C and enemy max HP at 0x4E, each the little-endian form of a
\* big-endian source pair; money is at 0x50 (4 bytes), badges at 0x54, bytes
\* 0x55-0x57 are zero; and the exported offset and size constants name the
\* same offsets and size.
C22_MirrorLayout ==
    MirrorWritten
       => /\ ~panicked
          /\ Len(mirror) = \h68
          /\ StatementAt(\h4C).kind = "be16"
          /\ StatementAt(\h4E).kind = "be16"
          /\ StatementAt(\h50).kind = "money"
          /\ StatementAt(\h54).kind = "copy" /\ StatementAt(\h54).n = 1
          /\ \A i \in \h55..\h57 : mirror[i + 1] = 0
          /\ MIRROR_ENEMY_HP = \h4C
          /\ MIRROR_MONEY = \h50
          /\ MIRROR_BADGES = \h54
          /\ MirrorSizeExports = {\h68}

(***************************************************************************)
(* Session construction: Env::new of the Python binding, Device::new and   *)
(* Device::new_cgb, MMU::new and MMU::new_cgb.  CPU::new and CPU::new_cgb  *)
(* are in src/cpu.rs, which is not among the source files; they hand the   *)
(* cartridge to MMU::new and MMU::new_cgb.  header is the cartridge byte   *)
(* at 0x0143, which the constructors read through rb.                      *)
(***************************************************************************)
\* the struct literal of MMU::new and MMU::new_cgb after fill_random, with
\* the mirror and the frame counter of a new session
PowerOn(mode) ==
    [gbmode |-> mode, wram |-> FillRandom42, zram |-> [c \in ZramCells |-> 0],
     hdma |-> [i \in 0..3 |-> 0], inte |-> 0, intf |-> 0, keypad |-> KeypadNew,
     timer_interrupt |-> 0, gpu_interrupt |-> 0, serial_interrupt |-> 0,
     hdma_status |-> "NoDMA", hdma_src |-> 0, hdma_dst |-> 0, hdma_len |-> \hFF,
     wrambank |-> 1, gbspeed |-> "Single", speed_switch_req |-> FALSE,
     undocumented_cgb_regs |-> [i \in 0..2 |-> 0],
     mirror |-> [i \in 1..MIRROR_SIZE |-> 0], frame_counter |-> FrameZero]

\* determine_mode: `match self.rb(0x0143) & 0x80`
DetermineMode(header) ==
    IF BitAnd(header, \h80) = \h80 THEN "Color" ELSE "ColorAsClassic"

\* MMU::new: Err for a cartridge whose byte 0x0143 is 0xC0
MmuNew(header) ==
    IF header = \hC0 THEN [ok |-> FALSE, mode |-> "Classic"]
    ELSE [ok |-> TRUE, mode |-> "Classic"]

MmuNewCgb(header) == [ok |-> TRUE, mode |-> DetermineMode(header)]

CpuNew(header) == MmuNew(header)

CpuNewCgb(header) == MmuNewCgb(header)

\* Device::new and Device::new_cgb map the CPU into a Device
DeviceNew(header) == CpuNew(header)

DeviceNewCgb(header) == CpuNewCgb(header)

\* Option<bool>::unwrap_or(false)
UnwrapOrFalse(o) == o = "Some(true)"

\* `if classic { Device::new_cgb(..) } else { Device::new(..) }`
EnvDevice(classic_mode, header) ==
    IF UnwrapOrFalse(classic_mode) THEN DeviceNewCgb(header)
    ELSE DeviceNew(header)

\* Env::new: a new session, or the error of the constructor (no session is
\* made and the one at hand stays as it is)
EnvNew(classic_mode, header) ==
    LET r == EnvDevice(classic_mode, header) IN
    /\ ~panicked
    /\ BusBecomes(IF r.ok THEN PowerOn(r.mode) ELSE Snapshot)
    /\ panicked' = panicked
    /\ last' = Op(IF r.ok THEN "env_new" ELSE "env_new_err", 0, header,
                  classic_mode, 0, <<>>, FALSE)
    /\ pre' = Snapshot

(***************************************************************************)
(* Specification SpecEnv: sessions made by Env::new for each mode selector *)
(* and cartridge kind, with reads and writes of color-only registers.      *)
(***************************************************************************)
ClassicModeArgs == {"None", "Some(false)", "Some(true)"}

\* byte 0x0143 of a classic cartridge, a color-aware one and a color-only one
CartHeaders == {\h00, \h80, \hC0}

EnvRegs == {\hFF70, \hFF72}

NextEnv ==
    \/ \E c \in ClassicModeArgs, h \in CartHeaders : EnvNew(c, h)
    \/ \E a \in EnvRegs, v \in {\h02, \h5A} : Wb(a, v)
    \/ \E a \in EnvRegs : Rb(a)

SpecEnv == Init /\ [][NextEnv]_vars

\* C23: an Env made with classic_mode = true runs in classic mode, with the
\* color-only registers gated; one made with classic_mode = false or without
\* the argument runs in color mode.
C23_ModeSelector ==
    last.op = "env_new" =>
        /\ last.key = "Some(true)"
              => (gbmode = "Classic"
                  /\ \A a \in ColorOnlyRegs : RbArm(a, gbmode) = "gated")
        /\ last.key \in {"Some(false)", "None"} => gbmode = "Color"

(***************************************************************************)
(* Specification SpecTick: scheduler advances of even and odd tick budgets *)
(* at both speeds, with no transfer, a one-shot transfer or a blanking-row *)
(* transfer pending.                                                       *)
(***************************************************************************)
TickBudgets == {4, 7}

\* one-shot transfers of 1 and 3 rows, blanking-row transfers of 1 and 2
TickControls == {\h00, \h02, \h80, \h81}

NextTick ==
    \/ \E v \in TickControls : Wb(\hFF55, v)
    \/ Wb(\hFF4D, \h01)
    \/ SwitchSpeed
    \/ \E t \in TickBudgets, may \in BOOLEAN : DoCycle(t, may, 0, 0)

SpecTick == InitIn({"Color"}, {FrameZero}) /\ [][NextTick]_vars

\* the DMA cost of an advance: 0 with no transfer or a blanking-row transfer
\* the video unit did not accept, 8 for one blanking row, (L + 1) * 8 for a
\* one-shot transfer of length L
DmaCost ==
    IF pre.hdma_status = "GDMA" THEN (pre.hdma_len + 1) * 8
    ELSE IF pre.hdma_status = "HDMA" /\ last.may THEN 8
    ELSE 0

\* C24: do_cycle(ticks) at speed divider d resolves the pending DMA first,
\* at cost v; it advances the timer by ticks + v * d and video and audio by
\* floor(ticks / d) + v, which is also what it returns.
C24_TickArithmetic ==
    last.op = "do_cycle" =>
        LET d == IF pre.gbspeed = "Double" THEN 2 ELSE 1
            v == DmaCost
        IN  /\ Len(last.rows) * 8 = v
            /\ last.addr = last.value + v * d
            /\ last.ret = (last.value \div d) + v

\* an odd budget at double speed with a three-row one-shot transfer pending
C24_Witness ==
    /\ last.op = "do_cycle"
    /\ pre.gbspeed = "Double"
    /\ pre.hdma_status = "GDMA" /\ pre.hdma_len = 2
    /\ last.value = 7
    /\ last.ret = 27
    /\ last.addr = 55

(***************************************************************************)
(* Specification SpecBlank: blanking-row transfers of 1, 3 and 128 rows,   *)
(* with restarts, cancelling writes and reads of the control register      *)
(* between the advances.  SpecBlankLive adds that the scheduler goes on    *)
(* advancing with the video unit accepting a row: the processor loop calls *)
(* do_cycle after every instruction, and the video unit answers may_hdma() *)
(* with true once in every horizontal blanking.                            *)
(***************************************************************************)
BlankControls == {\h80, \h82, \hFF, \h02}

NextBlank ==
    \/ Wb(\hFF51, \hC0)
    \/ \E v \in BlankControls : Wb(\hFF55, v)
    \/ Rb(\hFF55)
    \/ \E may \in BOOLEAN : DoCycle(4, may, 0, 0)

SpecBlank == InitIn({"Color"}, {FrameZero}) /\ [][NextBlank]_vars

AcceptedAdvance == DoCycle(4, TRUE, 0, 0)

SpecBlankLive == SpecBlank /\ WF_vars(AcceptedAdvance)

\* the advance that copied the last row of a blanking-row transfer
BlankingCompleted ==
    /\ last.op = "do_cycle"
    /\ pre.hdma_status = "HDMA"
    /\ hdma_status = "NoDMA"

\* the write that cancelled a blanking-row transfer
BlankingCancelled ==
    /\ last.op = "wb" /\ last.addr = \hFF55
    /\ pre.hdma_status = "HDMA"
    /\ hdma_status = "NoDMA"

\* C26: a blanking-row transfer started with length byte L has copied
\* (L & 0x7F) + 1 rows, over the advances in which the video unit accepted a
\* row, when it becomes 'no transfer', and the control register then reads
\* 0xFF; before that it has copied fewer.  With the video unit accepting
\* rows again and again, a transfer that is not cancelled completes.
C26_BlankingCompletes ==
    /\ [](BlankingCompleted
            => /\ last.run.rows = (last.run.L % 128) + 1
               /\ RbValue(\hFF55) = \hFF)
    /\ [](hdma_status = "HDMA" => last.run.rows <= last.run.L % 128)
    /\ (hdma_status = "HDMA") ~> (BlankingCompleted \/ BlankingCancelled)

\* a transfer of three rows from 0xC000 has completed at its third accepted
\* advance
C26_Witness ==
    /\ BlankingCompleted
    /\ last.run.L = \h82
    /\ last.run.rows = 3
    /\ hdma_src = \hC030

(***************************************************************************)
(* Specification SpecRows: transfers of two rows started at the last legal *)
(* source of the first range (0x7FF0) and at the last destination          *)
(* (0x9FF0).                                                               *)
(***************************************************************************)
RowLatches ==
    {<<\hFF51, \h7F>>, <<\hFF52, \hF0>>, <<\hFF53, \h1F>>, <<\hFF54, \hF0>>}

\* a one-shot and a blanking-row transfer of 2 rows
RowControls == {\h01, \h81}

NextRows ==
    \/ \E w \in RowLatches : Wb(w[1], w[2])
    \/ \E v \in RowControls : Wb(\hFF55, v)
    \/ \E may \in BOOLEAN : DoCycle(4, may, 0, 0)

SpecRows == InitIn({"Color"}, {FrameZero}) /\ [][NextRows]_vars

\* the addresses the sixteen iterations of a row starting at a go through
RowSpan(a) == { Add16(a, j) : j \in 0..15 }

\* C27: every byte a row of a transfer reads comes from 0x0000-0x7FFF or
\* 0xA000-0xDFFF and every byte it writes lands in 0x8000-0x9FFF, for every
\* row of every transfer that starts.
C27_RowsStayLegal ==
    last.op = "do_cycle" =>
        \A i \in 1..Len(last.rows) :
            /\ \A a \in RowSpan(last.rows[i][1]) :
                  In(a, \h0000, \h7FFF) \/ In(a, \hA000, \hDFFF)
            /\ \A a \in RowSpan(last.rows[i][2]) : In(a, \h8000, \h9FFF)

\* C28: write_mirror never fails: every working-memory index it reads is
\* below the working-memory size 0x8000, so the mirror write completes in
\* every reachable state, and no mirror is left with its frame counter
\* advanced and its fields not refreshed.
C28_MirrorNeverFails ==
    MirrorWritten
       => /\ \A i \in 1..Len(MirrorSteps) :
                \A x \in StepReads(MirrorSteps[i]) : x < \h8000
          /\ ~panicked

====
